---- MODULE Spec2Model ----
(***************************************************************************)
(* Model of the house_renter booking and liquidation code.                 *)
(*                                                                         *)
(* Calendar dates are day ordinals (integers).  The code stores a date as  *)
(* the text 'YYYY-MM-DD' (add_booking) and reads it back as a midnight     *)
(* Timestamp (load_bookings, parse_dates); every Timestamp it compares is  *)
(* normalised to midnight, so the order of Timestamps is the order of the  *)
(* day ordinals.                                                           *)
(***************************************************************************)
EXTENDS Integers, Sequences, FiniteSets, TLC

\* ---------------------------------------------------------------- bounds
MaxDay == 2
MaxBookings == 2
MaxExpenses == 1

Dates == 0..MaxDay
\* properties table (ids of the rows of `properties`), Streamlit sessions
Props == {1, 2}
Sessions == {"s1", "s2"}

VARIABLES
    bookings,        \* the bookings table of the database, in rowid order
    bookings_cache,  \* load_bookings' st.cache_data entry: <<>> or <<table>>
    caches,          \* the entries of load_properties and load_expenses, likewise
    today,           \* date.today()
    rr,              \* Reserva Rapida: st.session_state, script position and messages, per session
    qb,              \* Quick Booking page: its widgets and what it shows
    properties,      \* the properties table
    expenses,        \* the expenses table
    liquidations,    \* the liquidations table
    liq,             \* Liquidacion mensual: its widgets, st.session_state and messages
    out,             \* what the last read-only computation returned or displayed
    tg               \* the Telegram bot: booking_data, next-step handlers, handler threads

vars == <<bookings, bookings_cache, caches, today, rr, qb, properties, expenses,
          liquidations, liq, out, tg>>

\* what the actions of each page leave alone
liqState == <<properties, expenses, caches, liquidations, liq, tg>>
notRR == <<today, qb, liqState, out>>
notForm == <<today, rr, qb, liqState, out>>
notQB == <<today, rr, liqState, out>>
notRead == <<bookings, today, rr, qb, liqState>>
notLiq == <<bookings, today, rr, qb, properties, expenses, tg>>

Max(a, b) == IF a > b THEN a ELSE b
Min(a, b) == IF a < b THEN a ELSE b

\* ------------------------------------------------------- data_manager.py

\* load_bookings(): the cached table when there is one, else the database's.
load_bookings == IF bookings_cache = <<>> THEN bookings ELSE bookings_cache[1]

\* load_properties() and load_expenses(), cached in the same way.
load_properties == IF caches.properties = <<>> THEN properties ELSE caches.properties[1]
load_expenses == IF caches.expenses = <<>> THEN expenses ELSE caches.expenses[1]

\* Nothing cached yet.
CachesInit == [properties |-> <<>>, expenses |-> <<>>]

\* (mutant) a write that leaves the cache entry in place
clear_skipped(cache) == cache

\* load_properties.clear(), load_bookings.clear(), load_expenses.clear()
clear(cache) == <<>>

\* add_property: INSERT with the AUTOINCREMENT id.
add_property(table, owner) == Append(table, [id |-> Len(table) + 1, owner |-> owner])

\* update_property: UPDATE ... WHERE id = ?
update_property(table, property_id, owner) ==
    [k \in 1..Len(table) |-> IF table[k].id = property_id
                             THEN [table[k] EXCEPT !.owner = owner]
                             ELSE table[k]]

\* add_expense: INSERT with the AUTOINCREMENT id.
add_expense(table, property_id, expense_date, amount) ==
    Append(table, [id |-> Len(table) + 1, property_id |-> property_id,
                   expense_date |-> expense_date, amount |-> amount])

\* bookings_df[bookings_df['property_id'] == property_id]
FilterProperty(df, property_id) ==
    SelectSeq(df, LAMBDA b : b.property_id = property_id)

\* The row add_booking inserts: AUTOINCREMENT id, dates stored as given.
NewRow(table, property_id, tenant_name, start_date, end_date, rent_amount, source) ==
    [id |-> Len(table) + 1, property_id |-> property_id, tenant_name |-> tenant_name,
     start_date |-> start_date, end_date |-> end_date,
     rent_amount |-> rent_amount, source |-> source]

\* add_booking: INSERT and commit; no check of the dates or of other rows.
add_booking(table, property_id, tenant_name, start_date, end_date, rent_amount, source) ==
    Append(table, NewRow(table, property_id, tenant_name, start_date, end_date,
                         rent_amount, source))

\* (mutant) the rows are walked in the order of the table
SortSkipped(df) == df

\* get_first_available_date_for_property: the loop over the property's rows
\* sorted by start_date.
RECURSIVE SortByStart(_)
SortByStart(df) ==
    IF df = <<>> THEN <<>>
    ELSE LET i == CHOOSE k \in 1..Len(df) :
                    /\ \A j \in 1..Len(df) : df[k].start_date <= df[j].start_date
                    /\ \A j \in 1..(k - 1) : df[j].start_date > df[k].start_date
             rest == [j \in 1..(Len(df) - 1) |-> IF j < i THEN df[j] ELSE df[j + 1]]
         IN <<df[i]>> \o SortByStart(rest)

\* (mutant) a day is added after each booking
RECURSIVE AvailableWalkPlusOne(_, _, _)
AvailableWalkPlusOne(property_bookings, i, available_date) ==
    IF i > Len(property_bookings) THEN available_date
    ELSE IF available_date < property_bookings[i].start_date THEN available_date
    ELSE AvailableWalkPlusOne(property_bookings, i + 1,
                              Max(available_date, property_bookings[i].end_date + 1))

RECURSIVE AvailableWalk(_, _, _)
AvailableWalk(property_bookings, i, available_date) ==
    IF i > Len(property_bookings) THEN available_date
    ELSE IF available_date < property_bookings[i].start_date THEN available_date
    ELSE AvailableWalk(property_bookings, i + 1,
                       Max(available_date, property_bookings[i].end_date))

get_first_available_date_for_property(df, property_id, today_date) ==
    LET property_bookings == FilterProperty(df, property_id)
    IN IF property_bookings = <<>> THEN today_date
       ELSE AvailableWalk(SortByStart(property_bookings), 1, today_date)

\* (mutant) the loop includes the end date
RECURSIVE DaysOfBookingInclusive(_, _)
DaysOfBookingInclusive(current_date, end_date_exclusive) ==
    IF current_date <= end_date_exclusive
    THEN {current_date} \cup DaysOfBookingInclusive(current_date + 1, end_date_exclusive)
    ELSE {}

\* get_occupied_dates: per row, the while loop from start_date up to, not
\* including, end_date.
RECURSIVE DaysOfBooking(_, _)
DaysOfBooking(current_date, end_date_exclusive) ==
    IF current_date < end_date_exclusive
    THEN {current_date} \cup DaysOfBooking(current_date + 1, end_date_exclusive)
    ELSE {}

RECURSIVE OccupiedLoop(_, _)
OccupiedLoop(prop_bookings, i) ==
    IF i > Len(prop_bookings) THEN {}
    ELSE DaysOfBooking(prop_bookings[i].start_date, prop_bookings[i].end_date)
         \cup OccupiedLoop(prop_bookings, i + 1)

get_occupied_dates(property_id, bookings_df) ==
    IF bookings_df = <<>> THEN {}
    ELSE OccupiedLoop(FilterProperty(bookings_df, property_id), 1)

\* ------------------------------------------- pages/05 Reserva rapida

\* (mutant) the comparison taken inclusive: adjacent bookings conflict
RECURSIVE ConflictLoopInclusive(_, _, _, _)
ConflictLoopInclusive(prop_bookings, i, start_dt, end_dt) ==
    IF i > Len(prop_bookings) THEN 0
    ELSE IF Max(start_dt, prop_bookings[i].start_date)
              <= Min(end_dt, prop_bookings[i].end_date)
         THEN prop_bookings[i].id
         ELSE ConflictLoopInclusive(prop_bookings, i + 1, start_dt, end_dt)

\* (mutant) only a booking that ends within the candidate conflicts
RECURSIVE ConflictLoopEndsWithin(_, _, _, _)
ConflictLoopEndsWithin(prop_bookings, i, start_dt, end_dt) ==
    IF i > Len(prop_bookings) THEN 0
    ELSE IF start_dt < prop_bookings[i].end_date
              /\ prop_bookings[i].end_date <= end_dt
         THEN prop_bookings[i].id
         ELSE ConflictLoopEndsWithin(prop_bookings, i + 1, start_dt, end_dt)

\* (mutant) only a booking that starts within the candidate conflicts
RECURSIVE ConflictLoopStartsWithin(_, _, _, _)
ConflictLoopStartsWithin(prop_bookings, i, start_dt, end_dt) ==
    IF i > Len(prop_bookings) THEN 0
    ELSE IF start_dt <= prop_bookings[i].start_date
              /\ prop_bookings[i].start_date < end_dt
         THEN prop_bookings[i].id
         ELSE ConflictLoopStartsWithin(prop_bookings, i + 1, start_dt, end_dt)

\* The loop of the advisory and of the final check: the first row of the
\* property's bookings that overlaps [start, end), 0 when there is none.
RECURSIVE ConflictLoop(_, _, _, _)
ConflictLoop(prop_bookings, i, start_dt, end_dt) ==
    IF i > Len(prop_bookings) THEN 0
    ELSE IF Max(start_dt, prop_bookings[i].start_date)
              < Min(end_dt, prop_bookings[i].end_date)
         THEN prop_bookings[i].id
         ELSE ConflictLoop(prop_bookings, i + 1, start_dt, end_dt)

\* The rent the page offers (st.session_state.rent_amount_input).
RRRentDefault == 1000

\* Lines 294-334: validation of the dates held in the session state and the
\* advisory conflict check over the bookings loaded by this script run.
AdvisoryCheck(bookings_df, property_id, start_date, end_date, today_date) ==
    IF end_date <= start_date
    THEN [dates_valid |-> FALSE, conflict |-> 0]
    ELSE IF start_date < today_date
    THEN [dates_valid |-> FALSE, conflict |-> 0]
    ELSE [dates_valid |-> TRUE,
          conflict |-> ConflictLoop(FilterProperty(bookings_df, property_id), 1,
                                    start_date, end_date)]

\* (mutant) the final check misses the first booking of the property
FinalCheckSkipsFirst(latest_bookings, property_id, final_start_date, final_end_date) ==
    ConflictLoop(FilterProperty(latest_bookings, property_id), 2,
                 final_start_date, final_end_date)

\* Lines 372-401: the final check over the bookings reloaded at confirmation.
FinalCheck(latest_bookings, property_id, final_start_date, final_end_date) ==
    ConflictLoop(FilterProperty(latest_bookings, property_id), 1,
                 final_start_date, final_end_date)

\* (mutant) the booking is stored whatever the final check found
MayPersistAlways(final_conflict) == TRUE

\* Line 404: add_booking is called only when the final check found nothing.
MayPersist(final_conflict) == final_conflict = 0

\* First run of the page for a property (or the property changed): the dates
\* are reset to the suggestion, lines 85-92, then the page is drawn.
RROpen(s, p) ==
    /\ rr[s].pc = "page"
    /\ rr[s].property_id # p
    /\ LET df == load_bookings
           first_available == get_first_available_date_for_property(df, p, today)
           suggested_start == Max(first_available, today)
       IN /\ suggested_start <= MaxDay
          /\ bookings_cache' = <<df>>
          /\ rr' = [rr EXCEPT ![s] = [@ EXCEPT
                      !.property_id = p,
                      !.start_date = suggested_start,
                      !.end_date = suggested_start + 1,
                      !.conflict = AdvisoryCheck(df, p, suggested_start,
                                                 suggested_start + 1, today).conflict,
                      !.notice = "none"]]
    /\ UNCHANGED bookings
    /\ UNCHANGED notRR

\* A calendar selection (lines 205-239) or an edit of the date inputs
\* (lines 256-292): both leave start >= today and end > start in the state.
RRSelect(s, start, end) ==
    /\ rr[s].pc = "page"
    /\ rr[s].property_id # 0
    /\ start >= today /\ end > start
    /\ LET df == load_bookings
       IN /\ bookings_cache' = <<df>>
          /\ rr' = [rr EXCEPT ![s] = [@ EXCEPT
                      !.start_date = start, !.end_date = end,
                      !.conflict = AdvisoryCheck(df, rr[s].property_id, start, end,
                                                 today).conflict,
                      !.notice = "none"]]
    /\ UNCHANGED bookings
    /\ UNCHANGED notRR

\* "Confirmar y Reservar Propiedad" pressed (enabled when the dates are
\* valid): the bookings are loaded again and the final check runs.
RRFinalCheck(s) ==
    /\ rr[s].pc = "page"
    /\ rr[s].property_id # 0
    /\ rr[s].end_date <= MaxDay
    /\ LET df == load_bookings
       IN /\ AdvisoryCheck(df, rr[s].property_id, rr[s].start_date, rr[s].end_date,
                           today).dates_valid
          /\ bookings_cache' = <<df>>
          /\ rr' = [rr EXCEPT ![s] = [@ EXCEPT
                      !.pc = "checked",
                      !.conflict = FinalCheck(df, rr[s].property_id,
                                              rr[s].start_date, rr[s].end_date),
                      !.latest_bookings = df,
                      !.notice = "none"]]
    /\ UNCHANGED bookings
    /\ UNCHANGED notRR

\* Lines 395-401: a conflict at the final check; st.error, then st.rerun
\* draws the page again from the cached table.
RRAbort(s) ==
    /\ rr[s].pc = "checked"
    /\ ~MayPersist(rr[s].conflict)
    /\ rr' = [rr EXCEPT ![s] = [@ EXCEPT !.pc = "page", !.latest_bookings = <<>>,
                                         !.notice = "conflict_error"]]
    /\ UNCHANGED <<bookings, bookings_cache>>
    /\ UNCHANGED notRR

\* Lines 404-442: add_booking (which clears load_bookings' cache), then the
\* reset of the dates on success and st.rerun, which draws the page over the
\* reloaded table.
RRSave(s, success) ==
    /\ rr[s].pc = "checked"
    /\ MayPersist(rr[s].conflict)
    /\ IF success
       THEN /\ Len(bookings) < MaxBookings
            /\ bookings' = add_booking(bookings, rr[s].property_id, "Reserva Rapida",
                                       rr[s].start_date, rr[s].end_date, RRRentDefault,
                                       "Reserva Rapida (Cal/Manual)")
            /\ bookings_cache' = <<bookings'>>
            /\ rr' = [rr EXCEPT ![s] = [@ EXCEPT !.pc = "page", !.latest_bookings = <<>>,
                                                 !.start_date = rr[s].end_date,
                                                 !.end_date = rr[s].end_date + 1,
                                                 !.conflict =
                                                     AdvisoryCheck(bookings', rr[s].property_id,
                                                                   rr[s].end_date,
                                                                   rr[s].end_date + 1,
                                                                   today).conflict,
                                                 !.notice = "saved"]]
       ELSE /\ rr' = [rr EXCEPT ![s] = [@ EXCEPT !.pc = "page", !.latest_bookings = <<>>,
                                                 !.notice = "save_error"]]
            /\ UNCHANGED <<bookings, bookings_cache>>
    /\ UNCHANGED notRR

\* ------------------------------------------- pages/02 Alquileres

\* Lines 144-185, for a form with property, tenant, rent and source given:
\* the only check of the dates.
FormValidation(start_date, end_date) == ~(end_date < start_date)

\* Amounts typed into "Monto del Alquiler".
Rents == {100}

\* "Agregar Reserva" submitted.
AddBookingForm(p, start_date, end_date, rent_amount, success) ==
    /\ IF FormValidation(start_date, end_date) /\ success
       THEN /\ Len(bookings) < MaxBookings
            /\ bookings' = add_booking(bookings, p, "tenant", start_date, end_date,
                                       rent_amount, "Direct")
            /\ bookings_cache' = clear(bookings_cache)
       ELSE UNCHANGED <<bookings, bookings_cache>>
    /\ UNCHANGED notForm

\* ------------------------------------------- callers of data_manager

\* A page of the Streamlit process calls a load function: the table comes
\* from the cache entry, which is filled when empty.
CallLoad(which) ==
    /\ which \in {"load_properties", "load_bookings", "load_expenses"}
    /\ IF which = "load_bookings"
       THEN /\ bookings_cache' = <<load_bookings>>
            /\ UNCHANGED caches
            /\ out' = [op |-> which, property_id |-> 0, result |-> load_bookings]
       ELSE IF which = "load_properties"
       THEN /\ caches' = [caches EXCEPT !.properties = <<load_properties>>]
            /\ UNCHANGED bookings_cache
            /\ out' = [op |-> which, property_id |-> 0, result |-> load_properties]
       ELSE /\ caches' = [caches EXCEPT !.expenses = <<load_expenses>>]
            /\ UNCHANGED bookings_cache
            /\ out' = [op |-> which, property_id |-> 0, result |-> load_expenses]
    /\ UNCHANGED <<bookings, properties, expenses, today, rr, qb, liquidations, liq, tg>>

\* add_property called: True after INSERT, commit and clear; False after an
\* sqlite3.Error and rollback.
CallAddProperty(owner, success) ==
    /\ IF success
       THEN /\ Len(properties) < Cardinality(Props)
            /\ properties' = add_property(properties, owner)
            /\ caches' = [caches EXCEPT !.properties = clear(@)]
       ELSE UNCHANGED <<properties, caches>>
    /\ out' = [op |-> "add_property", property_id |-> Len(properties) + 1,
               result |-> success, cached |-> caches.properties # <<>>,
               written |-> [id |-> Len(properties) + 1, owner |-> owner]]
    /\ UNCHANGED <<bookings, bookings_cache, expenses, today, rr, qb, liquidations, liq, tg>>

\* update_property called: False without clearing when no row has the id
\* (rowcount 0) or after an error, True after a row was updated.
CallUpdateProperty(property_id, owner, success) ==
    LET found == \E k \in 1..Len(properties) : properties[k].id = property_id
    IN /\ IF success /\ found
          THEN /\ properties' = update_property(properties, property_id, owner)
               /\ caches' = [caches EXCEPT !.properties = clear(@)]
          ELSE UNCHANGED <<properties, caches>>
       /\ out' = [op |-> "update_property", property_id |-> property_id,
                  result |-> success /\ found, cached |-> caches.properties # <<>>,
                  written |-> [id |-> property_id, owner |-> owner]]
       /\ UNCHANGED <<bookings, bookings_cache, expenses, today, rr, qb, liquidations,
                      liq, tg>>

\* add_booking called.
CallAddBooking(p, start_date, end_date, rent_amount, success) ==
    /\ IF success
       THEN /\ Len(bookings) < MaxBookings
            /\ bookings' = add_booking(bookings, p, "tenant", start_date, end_date,
                                       rent_amount, "Direct")
            /\ bookings_cache' = clear(bookings_cache)
       ELSE UNCHANGED <<bookings, bookings_cache>>
    /\ out' = [op |-> "add_booking", property_id |-> p, result |-> success,
               cached |-> bookings_cache # <<>>,
               written |-> NewRow(bookings, p, "tenant", start_date, end_date,
                                  rent_amount, "Direct")]
    /\ UNCHANGED <<properties, expenses, caches, today, rr, qb, liquidations, liq, tg>>

\* add_expense called.
CallAddExpense(p, expense_date, amount, success) ==
    /\ IF success
       THEN /\ Len(expenses) < MaxExpenses
            /\ expenses' = add_expense(expenses, p, expense_date, amount)
            /\ caches' = [caches EXCEPT !.expenses = clear(@)]
       ELSE UNCHANGED <<expenses, caches>>
    /\ out' = [op |-> "add_expense", property_id |-> p, result |-> success,
               cached |-> caches.expenses # <<>>,
               written |-> [id |-> Len(expenses) + 1, property_id |-> p,
                            expense_date |-> expense_date, amount |-> amount]]
    /\ UNCHANGED <<bookings, bookings_cache, properties, today, rr, qb, liquidations,
                   liq, tg>>

\* ------------------------------------------- telegram.py

\* callback_worker, 'booking_confirm_yes': the bot, a process of its own, adds
\* the booking of its wizard (the end date is picked from a calendar that
\* starts at the start date).  load_bookings.clear() inside add_booking
\* clears the cache of the bot's process; the cache of the Streamlit process
\* stays as it is.
TelegramConfirm(p, start_date, end_date, rent_amount, success) ==
    /\ end_date >= start_date
    /\ IF success
       THEN /\ Len(bookings) < MaxBookings
            /\ bookings' = add_booking(bookings, p, "tenant", start_date, end_date,
                                       rent_amount, "Telegram")
       ELSE UNCHANGED bookings
    /\ UNCHANGED bookings_cache
    /\ UNCHANGED notForm

\* ------------------------------------------------------------ telegram.py
\* The bot keeps its wizards' answers in the module-level dictionary
\* booking_data, keyed by chat id (lines 143-144).  A chat's entry is a record
\* that always carries the chat and gains one field per answer; Absent stands
\* for "no key for this chat".
Chats == {"c1", "c2"}
Absent == [absent |-> TRUE]
EmptyData(chat_id) == [chat |-> chat_id]
Put(data, field, value) ==
    [x \in DOMAIN data \cup {field} |-> IF x = field THEN value ELSE data[x]]
Has(data, field) == field \in DOMAIN data

\* The fields of a booking in the order in which the wizard asks for them.
Fields == <<"property_id", "tenant_name", "start_date", "end_date",
            "rent_amount", "rent_currency", "source", "notes">>
Complete(data) == \A k \in 1..Len(Fields) : Has(data, Fields[k])

\* Line 16: telebot.TeleBot(TELEGRAM_BOT_TOKEN) runs its handlers on a pool of
\* worker threads, two by default.
NumThreads == 2
Idle == [idle |-> TRUE]

\* What a user types as an answer.  "casa" is the name of property 1, "100"
\* parses as a number, "ARS" is one of dm.CURRENCIES; a text is none of the
\* others.
Texts == {"casa", "100", "ARS"}
TgDates == {0}

\* Lines 78-117: the id of the property with that name, 0 for None.
get_property_id_from_input(property_name) ==
    IF property_name = "casa" /\ properties # <<>> THEN properties[1].id ELSE 0

\* Lines 270-273: float(text), negative refused; 0 stands for ValueError.
ParseAmount(text) == IF text = "100" THEN 100 ELSE 0

TgInit ==
    [booking_data |-> [c \in Chats |-> Absent],
     next |-> [c \in Chats |-> {}],
     workers |-> [t \in 1..NumThreads |-> Idle],
     event |-> [chat |-> "c1", kind |-> "none", replies |-> {}]]

\* A handler works on the chat's entry, on the next-step handlers it
\* registers and on the replies it sends.  A KeyError ends the handler where
\* it is raised (what it did before stays).
ChatState(chat_id) ==
    [data |-> tg.booking_data[chat_id], next |-> {}, replies |-> {}]
Reply(st, text) == [st EXCEPT !.replies = @ \cup {text}]
Register(st, handler) == [st EXCEPT !.next = @ \cup {handler}]
Store(st, field, value) == [st EXCEPT !.data = Put(@, field, value)]

\* Lines 161-191: /new_booking.
new_booking(st, chat_id) ==
    LET fresh == [st EXCEPT !.data = EmptyData(chat_id)]
    IN  IF properties = <<>>
        THEN Reply(fresh, "no_properties")
        ELSE Register(Reply(fresh, "ask_property"), "process_property_name")

\* Lines 193-210.
process_property_name(st, text) ==
    IF get_property_id_from_input(text) = 0
    THEN Reply(st, "invalid_property")
    ELSE IF st.data = Absent THEN st
    ELSE Register(Reply(Store(st, "property_id", get_property_id_from_input(text)),
                        "ask_tenant"),
                  "process_tenant_name")

\* Lines 212-221: the answer is stored and the first calendar is sent; no
\* next-step handler is registered.
process_tenant_name(st, text) ==
    IF st.data = Absent THEN st
    ELSE Reply(Store(st, "tenant_name", text), "ask_start_date")

\* Lines 223-240: a date picked on a calendar with calendar_id 1.
cal_start(st, result) ==
    IF st.data = Absent THEN st
    ELSE Reply(Store(st, "start_date", result), "ask_end_date")

\* Lines 242-260: a date picked on a calendar with calendar_id 2, which
\* starts at the stored start date.
cal_end(st, result) ==
    IF st.data = Absent \/ ~Has(st.data, "start_date") THEN st
    ELSE IF result < st.data.start_date THEN st
    ELSE Register(Reply(Store(st, "end_date", result), "ask_rent_amount"),
                  "process_rent_amount")

\* Lines 262-286.
process_rent_amount(st, text) ==
    IF ParseAmount(text) = 0
    THEN Reply(st, "invalid_amount")
    ELSE IF st.data = Absent THEN st
    ELSE Register(Reply(Store(st, "rent_amount", ParseAmount(text)), "ask_currency"),
                  "process_rent_currency")

\* Lines 288-304.
process_rent_currency(st, text) ==
    IF text # "ARS"
    THEN Reply(st, "invalid_currency")
    ELSE IF st.data = Absent THEN st
    ELSE Register(Reply(Store(st, "rent_currency", text), "ask_source"),
                  "process_source")

\* Lines 306-318: any text is taken.
process_source(st, text) ==
    IF st.data = Absent THEN st
    ELSE Register(Reply(Store(st, "source", text), "ask_notes"), "process_notes")

\* Lines 320-348: the notes are stored and confirm_booking sends the summary
\* with the buttons 'Si' and 'No'; a missing field raises KeyError before the
\* message is sent.
process_notes(st, text) ==
    IF st.data = Absent THEN st
    ELSE LET stored == Store(st, "notes", text)
         IN  IF Complete(stored.data) THEN Reply(stored, "confirm") ELSE stored

\* Lines 488-492: the catch-all handler.
handle_message(st) == Reply(st, "usage")

\* telebot hands a message to every next-step handler registered for its
\* chat, which are thereby consumed, and only a message without one goes to
\* the command handlers and the catch-all.
HandlerOrder ==
    <<"process_property_name", "process_tenant_name", "process_rent_amount",
      "process_rent_currency", "process_source", "process_notes">>

RunHandler(handler, st, text) ==
    CASE handler = "process_property_name" -> process_property_name(st, text)
      [] handler = "process_tenant_name" -> process_tenant_name(st, text)
      [] handler = "process_rent_amount" -> process_rent_amount(st, text)
      [] handler = "process_rent_currency" -> process_rent_currency(st, text)
      [] handler = "process_source" -> process_source(st, text)
      [] OTHER -> process_notes(st, text)

RECURSIVE RunHandlers(_, _, _, _)
RunHandlers(k, registered, st, text) ==
    IF k > Len(HandlerOrder) THEN st
    ELSE RunHandlers(k + 1, registered,
                     IF HandlerOrder[k] \in registered
                     THEN RunHandler(HandlerOrder[k], st, text) ELSE st,
                     text)

Deliver(chat_id, kind, st) ==
    tg' = [tg EXCEPT !.booking_data[chat_id] = st.data,
                     !.next[chat_id] = st.next,
                     !.event = [chat |-> chat_id, kind |-> kind, replies |-> st.replies]]

\* A text message of a chat.
TgMessage(chat_id, text) ==
    /\ IF tg.next[chat_id] # {}
       THEN Deliver(chat_id, "message",
                    RunHandlers(1, tg.next[chat_id], ChatState(chat_id), text))
       ELSE Deliver(chat_id, "message", handle_message(ChatState(chat_id)))
    /\ UNCHANGED <<bookings, bookings_cache, caches, today, rr, qb, properties,
                   expenses, liquidations, liq, out>>

\* The command /new_booking of a chat that has no next-step handler waiting.
TgCommand(chat_id) ==
    /\ tg.next[chat_id] = {}
    /\ Deliver(chat_id, "command", new_booking(ChatState(chat_id), chat_id))
    /\ UNCHANGED <<bookings, bookings_cache, caches, today, rr, qb, properties,
                   expenses, liquidations, liq, out>>

\* A callback query of a calendar; the handlers registered for the chat stay.
Keep(chat_id, st) == [st EXCEPT !.next = @ \cup tg.next[chat_id]]

TgCalendar(chat_id, calendar_id, result) ==
    /\ calendar_id \in {1, 2}
    /\ IF calendar_id = 1
       THEN Deliver(chat_id, "cal1", Keep(chat_id, cal_start(ChatState(chat_id), result)))
       ELSE Deliver(chat_id, "cal2", Keep(chat_id, cal_end(ChatState(chat_id), result)))
    /\ UNCHANGED <<bookings, bookings_cache, caches, today, rr, qb, properties,
                   expenses, liquidations, liq, out>>

\* Lines 350-379, callback_worker for 'booking_confirm_yes', on a free worker
\* thread.  Line 355 reads the chat's entry (KeyError outside the try when
\* there is none, inside it at the first missing field); the thread then
\* holds the dictionary it read.
TgYesRead(chat_id, t) ==
    /\ tg.workers[t] = Idle
    /\ IF tg.booking_data[chat_id] = Absent
       THEN tg' = [tg EXCEPT !.event = [chat |-> chat_id, kind |-> "yes",
                                       replies |-> {}]]
       ELSE IF ~Complete(tg.booking_data[chat_id])
       THEN tg' = [tg EXCEPT !.event = [chat |-> chat_id, kind |-> "yes",
                                       replies |-> {"error"}]]
       ELSE tg' = [tg EXCEPT !.workers[t] = [chat |-> chat_id,
                                             data |-> tg.booking_data[chat_id]],
                             !.event = [chat |-> chat_id, kind |-> "yes",
                                        replies |-> {}]]
    /\ UNCHANGED <<bookings, bookings_cache, caches, today, rr, qb, properties,
                   expenses, liquidations, liq, out>>

\* Lines 356-379: dm.add_booking with the fields of the dictionary, the
\* answer to the chat, del booking_data[chat_id].  A message that cannot be
\* sent or an entry already deleted raise inside the try: the except branch
\* reports it and what was done before stays.
TgYesFinish(t, success, sent) ==
    /\ tg.workers[t] # Idle
    /\ LET chat_id == tg.workers[t].chat
           data == tg.workers[t].data
           done(replies, deleted) ==
               tg' = [tg EXCEPT !.workers[t] = Idle,
                                !.booking_data[chat_id] =
                                    IF deleted THEN Absent ELSE @,
                                !.event = [chat |-> chat_id, kind |-> "yes_done",
                                           replies |-> replies]]
       IN  /\ IF success
              THEN /\ Len(bookings) < MaxBookings
                   /\ bookings' = add_booking(bookings, data.property_id,
                                              data.tenant_name, data.start_date,
                                              data.end_date, data.rent_amount,
                                              data.source)
              ELSE UNCHANGED bookings
           /\ IF ~sent THEN done({"error"}, FALSE)
              ELSE IF tg.booking_data[chat_id] = Absent
                   THEN done({IF success THEN "added" ELSE "not_added", "error"},
                             FALSE)
                   ELSE done({IF success THEN "added" ELSE "not_added"}, TRUE)
    /\ UNCHANGED <<bookings_cache, caches, today, rr, qb, properties,
                   expenses, liquidations, liq, out>>

\* The same handler run from its first line to its last with no other
\* handler in between.
TgYes(chat_id, success, sent) ==
    /\ \A t \in 1..NumThreads : tg.workers[t] = Idle
    /\ LET data == tg.booking_data[chat_id]
           done(replies, deleted) ==
               tg' = [tg EXCEPT !.booking_data[chat_id] =
                                    IF deleted THEN Absent ELSE @,
                                !.event = [chat |-> chat_id, kind |-> "yes_done",
                                           replies |-> replies]]
       IN  IF data = Absent
           THEN /\ done({}, FALSE)
                /\ UNCHANGED bookings
           ELSE IF ~Complete(data)
           THEN /\ done({"error"}, FALSE)
                /\ UNCHANGED bookings
           ELSE /\ IF success
                   THEN /\ Len(bookings) < MaxBookings
                        /\ bookings' = add_booking(bookings, data.property_id,
                                                   data.tenant_name, data.start_date,
                                                   data.end_date, data.rent_amount,
                                                   data.source)
                   ELSE UNCHANGED bookings
                /\ IF sent THEN done({IF success THEN "added" ELSE "not_added"}, TRUE)
                   ELSE done({"error"}, FALSE)
    /\ UNCHANGED <<bookings_cache, caches, today, rr, qb, properties,
                   expenses, liquidations, liq, out>>

\* Lines 381-385, 'booking_confirm_no': the answer, then del
\* booking_data[chat_id].
TgNo(chat_id) ==
    /\ tg' = [tg EXCEPT !.booking_data[chat_id] = Absent,
                        !.event = [chat |-> chat_id, kind |-> "no",
                                   replies |-> {"cancelled"}]]
    /\ UNCHANGED <<bookings, bookings_cache, caches, today, rr, qb, properties,
                   expenses, liquidations, liq, out>>


\* ------------------------------------------- pages/05_quick_booking.py

\* Line 37: end_date defaults to today + 7 days.
QBDefaultNights == 7

\* Lines 40-43: the rows shown as "Overlapping bookings" (their ids).
RECURSIVE Ids(_)
Ids(df) == IF df = <<>> THEN <<>> ELSE <<Head(df).id>> \o Ids(Tail(df))

existing_bookings(bookings_df, property_id, start_date, end_date) ==
    Ids(SelectSeq(bookings_df,
                  LAMBDA b : /\ b.property_id = property_id
                             /\ b.start_date <= end_date
                             /\ b.end_date >= start_date))

\* Lines 45-50: the warning or the success message.
QBShown(existing) == IF existing # <<>> THEN "already_booked" ELSE "available"

\* A run of the page with the property and the dates the widgets hold
\* (start >= today and end >= start are the widgets' min_value).
QBPage(p, start_date, end_date) ==
    /\ start_date >= today /\ end_date >= start_date
    /\ LET df == load_bookings
           existing == existing_bookings(df, p, start_date, end_date)
       IN /\ bookings_cache' = <<df>>
          /\ qb' = [property_id |-> p, start_date |-> start_date, end_date |-> end_date,
                    existing |-> existing, shown |-> QBShown(existing),
                    notice |-> "none"]
    /\ UNCHANGED bookings
    /\ UNCHANGED notQB

\* The page as first opened: first property, today, today + 7.
QBOpen ==
    /\ qb.property_id = 0
    /\ QBPage(1, today, today + QBDefaultNights)

\* "Book Property": lines 57-83.  The call of add_booking passes no
\* rent_currency, which add_booking (data_manager.py line 237) requires:
\* Python raises TypeError before the function body runs, and the page's
\* except Exception shows it.  Nothing is inserted.
QBBook ==
    /\ qb.property_id # 0
    /\ LET df == load_bookings
           existing == existing_bookings(df, qb.property_id, qb.start_date, qb.end_date)
       IN /\ bookings_cache' = <<df>>
          /\ qb' = [qb EXCEPT !.existing = existing, !.shown = QBShown(existing),
                              !.notice = IF qb.end_date <= qb.start_date
                                         THEN "end_not_after_start"
                                         ELSE "error_occurred"]
    /\ UNCHANGED bookings
    /\ UNCHANGED notQB

\* ------------------------------------------- pages/01 Ocupacion

\* Ids of the rows of the properties table, in row order.
RECURSIVE PropertyIds(_)
PropertyIds(properties_df) ==
    IF properties_df = <<>> THEN <<>>
    ELSE <<Head(properties_df).id>> \o PropertyIds(Tail(properties_df))

\* "Find booking covering today": the property's rows, sorted by start_date,
\* with start_date <= today and end_date >= today.
current_booking(bookings_df, prop_id, today_ts) ==
    SelectSeq(SortByStart(FilterProperty(bookings_df, prop_id)),
              LAMBDA b : b.start_date <= today_ts /\ b.end_date >= today_ts)

\* The rows starting after today, looked at when no row covers today.
future_bookings(bookings_df, prop_id, today_ts) ==
    SelectSeq(SortByStart(FilterProperty(bookings_df, prop_id)),
              LAMBDA b : b.start_date > today_ts)

\* The metric shown for one property.  (pages/01_occupancy_overview.py holds
\* the same computation with English labels.)
status_data(bookings_df, prop_id, today_ts) ==
    LET current == current_booking(bookings_df, prop_id, today_ts)
        future == future_bookings(bookings_df, prop_id, today_ts)
    IN IF current # <<>>
       THEN [status_label |-> "Ocupado", until |-> current[1].end_date]
       ELSE IF future # <<>>
       THEN [status_label |-> "Libre", until |-> future[1].start_date]
       ELSE [status_label |-> "Libre", until |-> -1]

\* A run of the occupancy page: the status of every property.
OccupancyOverview ==
    /\ LET df == load_bookings
       IN /\ bookings_cache' = <<df>>
          /\ out' = [op |-> "overview", property_id |-> 0,
                     result |-> [i \in 1..Len(properties) |->
                                   status_data(df, PropertyIds(properties)[i], today)]]
    /\ UNCHANGED notRead

\* A call of get_occupied_dates on the loaded bookings.
OccupiedDates(p) ==
    /\ LET df == load_bookings
       IN /\ bookings_cache' = <<df>>
          /\ out' = [op |-> "occupied", property_id |-> p,
                     result |-> get_occupied_dates(p, df)]
    /\ UNCHANGED notRead

\* A call of get_first_available_date_for_property, which loads the bookings
\* and takes today as the reference date.
FirstAvailable(p) ==
    /\ LET df == load_bookings
       IN /\ bookings_cache' = <<df>>
          /\ out' = [op |-> "first_available", property_id |-> p,
                     result |-> get_first_available_date_for_property(df, p, today)]
    /\ UNCHANGED notRead

\* ------------------------------------------- pages/06 Liquidacion mensual

\* Calendar: a date is the number of days since January 1 of CalendarBase.
CalendarBase == [year |-> 2023]

IsLeap(year) == (year % 4 = 0 /\ year % 100 # 0) \/ year % 400 = 0

DaysInMonth(year, month) ==
    IF month = 2 THEN (IF IsLeap(year) THEN 29 ELSE 28)
    ELSE IF month \in {4, 6, 9, 11} THEN 30 ELSE 31

\* Leap years before January 1 of the year, and the days from January 1 of
\* CalendarBase to the first of the month.
LeapsBefore(year) ==
    ((year - 1) \div 4) - ((year - 1) \div 100) + ((year - 1) \div 400)

DaysBeforeMonth(year, month) ==
    365 * (year - CalendarBase.year)
      + (LeapsBefore(year) - LeapsBefore(CalendarBase.year))
      + <<0, 31, 59, 90, 120, 151, 181, 212, 243, 273, 304, 334>>[month]
      + (IF month > 2 /\ IsLeap(year) THEN 1 ELSE 0)

\* pd.Timestamp(f"{selected_year}-{selected_month}-01")
month_start(selected_year, selected_month) ==
    DaysBeforeMonth(selected_year, selected_month)

\* month_start + pd.offsets.MonthEnd(0): the last day of that month
month_end(selected_year, selected_month) ==
    month_start(selected_year, selected_month)
        + DaysInMonth(selected_year, selected_month) - 1

\* The ids of the rows as list elements: the integer n is [id |-> n].
RECURSIVE IdList(_)
IdList(properties_df) ==
    IF properties_df = <<>> THEN <<>>
    ELSE <<[id |-> Head(properties_df).id]>> \o IdList(Tail(properties_df))

\* Lines 354-364 (and 447-453 for the display): the property ids the
\* liquidation covers.  The identifier is an owner's name, [owner |-> name],
\* a property id, [id |-> n], or, read back from the TEXT column of the
\* liquidations table, the text of a property id, [text |-> n].
property_ids_to_filter(properties_df, liq_type_key, identifier) ==
    IF liq_type_key = "por_propietario"
    THEN IdList(SelectSeq(properties_df,
                          LAMBDA r : [owner |-> r.owner] = identifier))
    ELSE IF liq_type_key = "por_propiedad" THEN <<identifier>>
    ELSE <<>>

\* Series.isin(list) on the integer column property_id: a text in the list
\* equals no integer.
isin(x, list) == \E k \in 1..Len(list) : list[k] = [id |-> x]

\* (mutant) the booking is recognised at check-in
mask_bookings_by_start(b, ids, first, last) ==
    /\ isin(b.property_id, ids)
    /\ b.start_date >= first
    /\ b.start_date <= last

\* (mutant) the last day of the month is left out
mask_bookings_before_last(b, ids, first, last) ==
    /\ isin(b.property_id, ids)
    /\ b.end_date >= first
    /\ b.end_date < last

\* Lines 373-378 and 385-390: the row filters.
mask_bookings(b, ids, first, last) ==
    /\ isin(b.property_id, ids)
    /\ b.end_date >= first
    /\ b.end_date <= last

mask_expenses(e, ids, first, last) ==
    /\ isin(e.property_id, ids)
    /\ e.expense_date >= first
    /\ e.expense_date <= last

\* A cell of a REAL column holds a number (the field rent_amount or amount of
\* the row), a text that is no number (the field rent_amount_text or
\* amount_text instead) or NULL (neither field), which pandas reads as NaN.
NaN == [nan |-> TRUE]

HasText(df, field_text) == \E k \in 1..Len(df) : field_text \in DOMAIN df[k]

HasNaN(df, field, field_text) ==
    \E k \in 1..Len(df) : field \notin DOMAIN df[k] /\ field_text \notin DOMAIN df[k]

\* Series.sum(): the numbers added up, NaN skipped.
RECURSIVE SumRent(_)
SumRent(df) ==
    IF df = <<>> THEN 0
    ELSE (IF "rent_amount" \in DOMAIN Head(df) THEN Head(df).rent_amount ELSE 0)
            + SumRent(Tail(df))

RECURSIVE SumAmount(_)
SumAmount(df) ==
    IF df = <<>> THEN 0
    ELSE (IF "amount" \in DOMAIN Head(df) THEN Head(df).amount ELSE 0)
            + SumAmount(Tail(df))

\* The outcome of a block that raised an exception.
Raised == [raised |-> TRUE]

\* Lines 349-415: the results dictionary, None when no property is covered;
\* a text among the summed amounts makes the sum or the product with the
\* commission raise TypeError.
None == [none |-> TRUE]

\* (mutant) the percentage is applied to what is left after the expenses
commission_on_profit(total_income, total_expenses, commission_percentage) ==
    ((total_income - total_expenses) * commission_percentage) \div 100

\* Line 397: total_income * (commission_percentage / 100.0).  The amounts and
\* percentages of this model are whole numbers whose product is a multiple
\* of 100, for which the floating-point product is exact.
commission_amount(total_income, total_expenses, commission_percentage) ==
    (total_income * commission_percentage) \div 100

\* Line 400
owner_net(total_income, total_expenses, commission) ==
    total_income - total_expenses - commission

results(properties_df, bookings_df, expenses_df, w) ==
    LET first == month_start(w.year, w.month)
        last == month_end(w.year, w.month)
        ids == property_ids_to_filter(properties_df, w.type, w.identifier)
        filtered_bookings == SelectSeq(bookings_df,
                                       LAMBDA b : mask_bookings(b, ids, first, last))
        filtered_expenses == SelectSeq(expenses_df,
                                       LAMBDA e : mask_expenses(e, ids, first, last))
        total_income == SumRent(filtered_bookings)
        total_expenses == SumAmount(filtered_expenses)
        commission == commission_amount(total_income, total_expenses,
                                        w.commission_percentage)
    IN IF ids = <<>> THEN None
       ELSE IF HasText(filtered_bookings, "rent_amount_text")
                 \/ HasText(filtered_expenses, "amount_text")
       THEN Raised
       ELSE [year |-> w.year, month |-> w.month, type |-> w.type,
             identifier |-> w.identifier,
             commission_percentage |-> w.commission_percentage,
             total_income |-> total_income, total_expenses |-> total_expenses,
             commission_amount |-> commission,
             owner_net |-> owner_net(total_income, total_expenses, commission)]

\* What the column identifier TEXT NOT NULL holds for a bound value: a text
\* as it is, an integer as its decimal text.
ToText(identifier) ==
    IF "id" \in DOMAIN identifier THEN [text |-> identifier.id] ELSE identifier

\* WHERE year = ? AND month = ? AND type = ? AND identifier = ?; the bound
\* identifier is compared as text.
SameKey(row, year, month, liq_type, identifier) ==
    /\ row.year = year /\ row.month = month
    /\ row.type = liq_type /\ row.identifier = ToText(identifier)

\* load_liquidation: the first row with the key, None without one.
load_liquidation(table, year, month, liq_type, identifier) ==
    LET found == SelectSeq(table, LAMBDA r : SameKey(r, year, month, liq_type, identifier))
    IN IF found = <<>> THEN None ELSE found[1]

\* (mutant) a save that inserts a row whether or not the key is stored
save_liquidation_insert_only(table, data, year, month, liq_type, identifier) ==
    Append(table, [year |-> year, month |-> month, type |-> liq_type,
                   identifier |-> ToText(identifier),
                   commission_percentage |-> data.commission_percentage,
                   total_income |-> data.total_income,
                   total_expenses |-> data.total_expenses,
                   commission_amount |-> data.commission_amount,
                   owner_net |-> data.owner_net])

\* (mutant) an UPDATE that adds the new totals to the stored ones
save_liquidation_accumulating(table, data, year, month, liq_type, identifier) ==
    IF \E k \in 1..Len(table) : SameKey(table[k], year, month, liq_type, identifier)
    THEN [k \in 1..Len(table) |->
            IF SameKey(table[k], year, month, liq_type, identifier)
            THEN [table[k] EXCEPT
                    !.commission_percentage = data.commission_percentage,
                    !.total_income = @ + data.total_income,
                    !.total_expenses = @ + data.total_expenses,
                    !.commission_amount = @ + data.commission_amount,
                    !.owner_net = @ + data.owner_net]
            ELSE table[k]]
    ELSE Append(table, [year |-> year, month |-> month, type |-> liq_type,
                        identifier |-> ToText(identifier),
                        commission_percentage |-> data.commission_percentage,
                        total_income |-> data.total_income,
                        total_expenses |-> data.total_expenses,
                        commission_amount |-> data.commission_amount,
                        owner_net |-> data.owner_net])

\* save_liquidation: UPDATE of the rows with the key, INSERT when there is none.
save_liquidation(table, data, year, month, liq_type, identifier) ==
    IF \E k \in 1..Len(table) : SameKey(table[k], year, month, liq_type, identifier)
    THEN [k \in 1..Len(table) |->
            IF SameKey(table[k], year, month, liq_type, identifier)
            THEN [table[k] EXCEPT
                    !.commission_percentage = data.commission_percentage,
                    !.total_income = data.total_income,
                    !.total_expenses = data.total_expenses,
                    !.commission_amount = data.commission_amount,
                    !.owner_net = data.owner_net]
            ELSE table[k]]
    ELSE Append(table, [year |-> year, month |-> month, type |-> liq_type,
                        identifier |-> ToText(identifier),
                        commission_percentage |-> data.commission_percentage,
                        total_income |-> data.total_income,
                        total_expenses |-> data.total_expenses,
                        commission_amount |-> data.commission_amount,
                        owner_net |-> data.owner_net])

\* (mutant) a change of the parameters that keeps a result already held
LoadOnChangeKeepsHeld(state, table) ==
    IF state.params # state.widgets
    THEN LET loaded_data == IF state.results # None THEN state.results
                            ELSE load_liquidation(table, state.widgets.year,
                                                  state.widgets.month, state.widgets.type,
                                                  state.widgets.identifier)
         IN [state EXCEPT !.params = state.widgets,
                          !.just_calculated = FALSE,
                          !.results = loaded_data,
                          !.notice = "none"]
    ELSE [state EXCEPT !.notice = "none"]

\* Lines 310-328: when the parameters differ from those of the last run, the
\* saved liquidation of the selection is loaded into the session state.
LoadOnChange(state, table) ==
    IF state.params # state.widgets
    THEN LET loaded_data == load_liquidation(table, state.widgets.year,
                                             state.widgets.month, state.widgets.type,
                                             state.widgets.identifier)
         IN [state EXCEPT !.params = state.widgets,
                          !.just_calculated = FALSE,
                          !.results = loaded_data,
                          !.notice = IF loaded_data # None
                                        /\ loaded_data.commission_percentage
                                              # state.widgets.commission_percentage
                                     THEN "loaded_other_commission"
                                     ELSE "none"]
    ELSE [state EXCEPT !.notice = "none"]

\* Lines 435-474: the rows shown with the results, filtered again by the
\* year, month, type and identifier held in the results.
filtered_bookings_for_display(res, properties_df, bookings_df) ==
    LET ids == property_ids_to_filter(properties_df, res.type, res.identifier)
        first == month_start(res.year, res.month)
        last == month_end(res.year, res.month)
    IN SelectSeq(bookings_df, LAMBDA b : mask_bookings(b, ids, first, last))

filtered_expenses_for_display(res, properties_df, expenses_df) ==
    LET ids == property_ids_to_filter(properties_df, res.type, res.identifier)
        first == month_start(res.year, res.month)
        last == month_end(res.year, res.month)
    IN SelectSeq(expenses_df, LAMBDA e : mask_expenses(e, ids, first, last))

\* (mutant) the bookings of a day taken by their start_date
daily_section_by_start(day_date, for_display_bookings, for_display_expenses) ==
    LET daily_bookings == SelectSeq(for_display_bookings,
                                    LAMBDA b : b.start_date = day_date)
        daily_expenses == SelectSeq(for_display_expenses,
                                    LAMBDA e : e.expense_date = day_date)
        daily_income_total == IF HasNaN(daily_bookings, "rent_amount", "rent_amount_text")
                              THEN NaN ELSE SumRent(daily_bookings)
        daily_expense_total == IF HasNaN(daily_expenses, "amount", "amount_text")
                               THEN NaN ELSE SumAmount(daily_expenses)
    IN [bookings |-> Ids(daily_bookings),
        expenses |-> Ids(daily_expenses),
        daily_income_total |-> daily_income_total,
        daily_expense_total |-> daily_expense_total,
        daily_net |-> IF HasNaN(daily_bookings, "rent_amount", "rent_amount_text")
                         \/ HasNaN(daily_expenses, "amount", "amount_text")
                      THEN NaN ELSE daily_income_total - daily_expense_total]

\* generate_liquidation_report_html, "Desglose Diario": one section per day of
\* pd.date_range(start = first of the month, periods = monthrange(year, month)[1]),
\* written here as the range and the sections of the days that have a row;
\* the section of any other day of the range lists nothing and has zero totals.
\* The totals of a day are accumulated with +=, so that a NaN makes them NaN.
daily_section(day_date, for_display_bookings, for_display_expenses) ==
    LET daily_bookings == SelectSeq(for_display_bookings,
                                    LAMBDA b : b.end_date = day_date)
        daily_expenses == SelectSeq(for_display_expenses,
                                    LAMBDA e : e.expense_date = day_date)
        daily_income_total == IF HasNaN(daily_bookings, "rent_amount", "rent_amount_text")
                              THEN NaN ELSE SumRent(daily_bookings)
        daily_expense_total == IF HasNaN(daily_expenses, "amount", "amount_text")
                               THEN NaN ELSE SumAmount(daily_expenses)
    IN [bookings |-> Ids(daily_bookings),
        expenses |-> Ids(daily_expenses),
        daily_income_total |-> daily_income_total,
        daily_expense_total |-> daily_expense_total,
        daily_net |-> IF HasNaN(daily_bookings, "rent_amount", "rent_amount_text")
                         \/ HasNaN(daily_expenses, "amount", "amount_text")
                      THEN NaN ELSE daily_income_total - daily_expense_total]

daily_breakdown(res, for_display_bookings, for_display_expenses) ==
    LET start == month_start(res.year, res.month)
        num_days == DaysInMonth(res.year, res.month)
        with_rows ==
            {d \in {for_display_bookings[k].end_date :
                        k \in 1..Len(for_display_bookings)}
                   \cup {for_display_expenses[k].expense_date :
                            k \in 1..Len(for_display_expenses)} :
                start <= d /\ d <= start + num_days - 1}
    IN [start |-> start, periods |-> num_days,
        sections |-> [d \in with_rows |->
                        daily_section(d, for_display_bookings, for_display_expenses)]]

\* Lines 502-560: what the page shows under "Resultados" and puts in the
\* report offered for download; nothing without results, and no report when
\* formatting a text amount raises (lines 546-560).
LiqDisplay(res, properties_df, bookings_df, expenses_df) ==
    IF res = None
    THEN [op |-> "liquidacion", property_id |-> 0, result |-> None]
    ELSE IF HasText(filtered_bookings_for_display(res, properties_df, bookings_df),
                    "rent_amount_text")
              \/ HasText(filtered_expenses_for_display(res, properties_df, expenses_df),
                         "amount_text")
    THEN [op |-> "liquidacion", property_id |-> 0, result |-> Raised]
    ELSE [op |-> "liquidacion", property_id |-> 0,
          result |-> daily_breakdown(
                         res,
                         filtered_bookings_for_display(res, properties_df, bookings_df),
                         filtered_expenses_for_display(res, properties_df, expenses_df))]

\* A widget is changed to select w: the page runs with the new selection.
LiqSelect(w) ==
    /\ liq.widgets # w
    /\ liq' = [LoadOnChange([liq EXCEPT !.widgets = w], liquidations)
                  EXCEPT !.just_calculated = FALSE]
    /\ bookings_cache' = <<load_bookings>>
    /\ out' = LiqDisplay(liq'.results, load_properties, load_bookings, load_expenses)
    /\ caches' = [properties |-> <<load_properties>>, expenses |-> <<load_expenses>>]
    /\ UNCHANGED liquidations
    /\ UNCHANGED notLiq

\* A run of the page without the button pressed.
LiqRun ==
    /\ liq.widgets # None
    /\ liq' = [LoadOnChange(liq, liquidations) EXCEPT !.just_calculated = FALSE]
    /\ bookings_cache' = <<load_bookings>>
    /\ out' = LiqDisplay(liq'.results, load_properties, load_bookings, load_expenses)
    /\ caches' = [properties |-> <<load_properties>>, expenses |-> <<load_expenses>>]
    /\ UNCHANGED liquidations
    /\ UNCHANGED notLiq

\* "Calcular Liquidacion" / "Recalcular Liquidacion" pressed on the drawn page.
LiqCalculate(success) ==
    /\ liq.widgets # None
    /\ liq.params = liq.widgets
    /\ LET w == liq.widgets
           res == results(load_properties, load_bookings, load_expenses, w)
       IN IF res = None
          THEN /\ liq' = [liq EXCEPT !.just_calculated = TRUE, !.results = None,
                                     !.notice = "no_properties"]
               /\ UNCHANGED liquidations
          ELSE IF res = Raised
          THEN /\ liq' = [liq EXCEPT !.just_calculated = TRUE, !.results = None,
                                     !.notice = "calculation_error"]
               /\ UNCHANGED liquidations
          ELSE IF success
          THEN /\ liquidations' = save_liquidation(liquidations, res, w.year, w.month,
                                                   w.type, w.identifier)
               /\ liq' = [liq EXCEPT !.just_calculated = TRUE, !.results = res,
                                     !.notice = IF liq.results # None
                                                     /\ ~liq.just_calculated
                                                  THEN "recalculada"
                                                  ELSE "calculada"]
          ELSE /\ liq' = [liq EXCEPT !.just_calculated = TRUE, !.results = res,
                                     !.notice = "save_error"]
               /\ UNCHANGED liquidations
    /\ bookings_cache' = <<load_bookings>>
    /\ out' = LiqDisplay(liq'.results, load_properties, load_bookings, load_expenses)
    /\ caches' = [properties |-> <<load_properties>>, expenses |-> <<load_expenses>>]
    /\ UNCHANGED notLiq

\* ------------------------------------------------------------ behaviours

RRInit == [property_id |-> 0, start_date |-> 0, end_date |-> 0, pc |-> "page",
           conflict |-> 0, latest_bookings |-> <<>>, notice |-> "none"]

QBInit == [property_id |-> 0, start_date |-> 0, end_date |-> 0, existing |-> <<>>,
           shown |-> "none", notice |-> "none"]

\* Two properties of two owners; the liquidation page not yet opened.
Properties0 == <<[id |-> 1, owner |-> "A"], [id |-> 2, owner |-> "B"]>>

LiqInit == [widgets |-> None, params |-> None, results |-> None,
            just_calculated |-> FALSE, notice |-> "none"]

OutInit == [op |-> "none", property_id |-> 0, result |-> 0]

\* The session that browses in Spec and SpecRR; SpecRace runs both.
Browsing == {"s1"}

RRNext(S) ==
    \/ \E s \in S, p \in Props : RROpen(s, p)
    \/ \E s \in S, start \in Dates, end \in Dates : RRSelect(s, start, end)
    \/ \E s \in S : RRFinalCheck(s)
    \/ \E s \in S : RRAbort(s)
    \/ \E s \in S, success \in BOOLEAN : RRSave(s, success)

\* Spec: the booking pages of the Streamlit process, from an empty database.
Init ==
    /\ bookings = <<>>
    /\ bookings_cache = <<>>
    /\ today = 0
    /\ rr = [s \in Sessions |-> RRInit]
    /\ qb = QBInit
    /\ properties = Properties0
    /\ expenses = <<>>
    /\ liquidations = <<>>
    /\ caches = CachesInit
    /\ tg = TgInit
    /\ liq = LiqInit
    /\ out = OutInit

Next ==
    \/ RRNext(Browsing)
    \/ \E p \in Props, start \in Dates, end \in Dates, rent \in Rents,
          success \in BOOLEAN :
          AddBookingForm(p, start, end, rent, success)
    \/ QBOpen
    \/ QBBook

Spec == Init /\ [][Next]_vars

\* SpecRR: the Reserva Rapida page of one session over a bookings table left
\* by earlier runs (rows as add_booking stores them; the entry points let
\* end_date = start_date through, never end_date < start_date).
RowSet == {r \in [property_id : Props, start_date : Dates, end_date : Dates] :
              r.end_date >= r.start_date}

MkTable(f) ==
    [i \in DOMAIN f |-> [id |-> i, property_id |-> f[i].property_id,
                         tenant_name |-> "tenant", start_date |-> f[i].start_date,
                         end_date |-> f[i].end_date, rent_amount |-> 100 * (2 ^ (i - 1)),
                         source |-> "Direct"]]

Tables == {MkTable(f) : f \in UNION {[1..n -> RowSet] : n \in 0..MaxBookings}}

InitRR ==
    /\ bookings \in Tables
    /\ bookings_cache = <<>>
    /\ today = 0
    /\ rr = [s \in Sessions |-> RRInit]
    /\ qb = QBInit
    /\ properties = Properties0
    /\ expenses = <<>>
    /\ liquidations = <<>>
    /\ caches = CachesInit
    /\ tg = TgInit
    /\ liq = LiqInit
    /\ out = OutInit

NextRR == RRNext(Browsing)

SpecRR == InitRR /\ [][NextRR]_vars

\* SpecPages: the two pages that check a candidate date range, over such a
\* table.
QBNext ==
    \/ QBOpen
    \/ \E p \in Props, start \in Dates, end \in Dates : QBPage(p, start, end)
    \/ QBBook

NextPages == RRNext(Browsing) \/ QBNext

SpecPages == InitRR /\ [][NextPages]_vars

\* SpecRace: two sessions that have both opened the page on an empty
\* database and selected dates, and now confirm.
Selections ==
    {x \in [property_id : Props, start_date : Dates, end_date : Dates] :
        x.start_date >= 0 /\ x.end_date > x.start_date}

InitRace ==
    /\ bookings = <<>>
    /\ bookings_cache = << <<>> >>
    /\ today = 0
    /\ rr \in [Sessions -> {[RRInit EXCEPT !.property_id = x.property_id,
                                           !.start_date = x.start_date,
                                           !.end_date = x.end_date] : x \in Selections}]
    /\ qb = QBInit
    /\ properties = Properties0
    /\ expenses = <<>>
    /\ liquidations = <<>>
    /\ caches = CachesInit
    /\ tg = TgInit
    /\ liq = LiqInit
    /\ out = OutInit

NextRace ==
    \/ \E s \in Sessions : RRFinalCheck(s)
    \/ \E s \in Sessions : RRAbort(s)
    \/ \E s \in Sessions, success \in BOOLEAN : RRSave(s, success)

SpecRace == InitRace /\ [][NextRace]_vars


\* SpecRead: the read-only computations over such a table, on any day.
InitRead ==
    /\ bookings \in Tables
    /\ bookings_cache = <<>>
    /\ today \in Dates
    /\ rr = [s \in Sessions |-> RRInit]
    /\ qb = QBInit
    /\ properties = Properties0
    /\ expenses = <<>>
    /\ liquidations = <<>>
    /\ caches = CachesInit
    /\ tg = TgInit
    /\ liq = LiqInit
    /\ out = OutInit

NextRead ==
    \/ OccupancyOverview
    \/ \E p \in Props : OccupiedDates(p)
    \/ \E p \in Props : FirstAvailable(p)

SpecRead == InitRead /\ [][NextRead]_vars

\* SpecLiq: the liquidation page, opened on one month with the owner of the
\* first property or the first property selected, over bookings that check out and expenses that fall on
\* the days around the ends of that month.
LiqPeriod == [year |-> 2024, month |-> 2]

LiqDates == {month_start(LiqPeriod.year, LiqPeriod.month) - 1,
             month_start(LiqPeriod.year, LiqPeriod.month),
             month_end(LiqPeriod.year, LiqPeriod.month),
             month_end(LiqPeriod.year, LiqPeriod.month) + 1}

\* The tables of SpecLiq hold their rows in the order of property and date
\* (one order of insertion for each collection of rows).
InsertedInOrder(f, date) ==
    \A i, j \in DOMAIN f :
        i < j => \/ f[i].property_id < f[j].property_id
                 \/ /\ f[i].property_id = f[j].property_id
                    /\ f[i][date] <= f[j][date]

LiqBookingTables ==
    {[i \in DOMAIN f |-> [id |-> i, property_id |-> f[i].property_id,
                          tenant_name |-> "tenant", start_date |-> f[i].end_date - 1,
                          end_date |-> f[i].end_date,
                          rent_amount |-> 100 * (2 ^ (i - 1)), source |-> "Direct"]] :
        f \in {f \in UNION {[1..n -> [property_id : Props, end_date : LiqDates]] :
                                n \in 0..MaxBookings} :
                  InsertedInOrder(f, "end_date")}}

LiqExpenseTables ==
    {[i \in DOMAIN f |-> [id |-> i, property_id |-> f[i].property_id,
                          expense_date |-> f[i].expense_date,
                          amount |-> 10 * (2 ^ (i - 1))]] :
        f \in {f \in UNION {[1..n -> [property_id : Props, expense_date : LiqDates]] :
                                n \in 0..MaxExpenses} :
                  InsertedInOrder(f, "expense_date")}}

PropertyTables ==
    {Properties0, <<[id |-> 1, owner |-> "A"], [id |-> 2, owner |-> "A"]>>}

\* What the widgets can hold: an owner of some property or a property, and
\* the default commission.
LiqWidgets(properties_df) ==
    {[year |-> LiqPeriod.year, month |-> LiqPeriod.month, type |-> "por_propietario",
      identifier |-> [owner |-> properties_df[k].owner], commission_percentage |-> 50] :
        k \in 1..Len(properties_df)}
    \cup
    {[year |-> LiqPeriod.year, month |-> LiqPeriod.month, type |-> "por_propiedad",
      identifier |-> [id |-> properties_df[k].id], commission_percentage |-> 50] :
        k \in 1..Len(properties_df)}

InitLiq ==
    /\ bookings \in LiqBookingTables
    /\ bookings_cache = <<>>
    /\ today = 0
    /\ rr = [s \in Sessions |-> RRInit]
    /\ qb = QBInit
    /\ properties \in PropertyTables
    /\ expenses \in LiqExpenseTables
    /\ liquidations = <<>>
    /\ caches = CachesInit
    /\ tg = TgInit
    /\ liq \in {[LiqInit EXCEPT !.widgets = w] :
                    w \in {w \in LiqWidgets(properties) :
                              w.identifier \in {[owner |-> properties[1].owner],
                                                [id |-> properties[1].id]}}}
    /\ out = OutInit

NextLiq ==
    \/ LiqRun
    \/ \E success \in BOOLEAN : LiqCalculate(success)

SpecLiq == InitLiq /\ [][NextLiq]_vars

\* SpecLiqStore: the liquidation page of an owner of both properties, with
\* the selection and the commission changed at will, over bookings that
\* check out on the last day of the month and expenses of its first day.
StoreBookingTables ==
    {[i \in DOMAIN f |-> [id |-> i, property_id |-> f[i],
                          tenant_name |-> "tenant",
                          start_date |-> month_end(LiqPeriod.year, LiqPeriod.month) - 1,
                          end_date |-> month_end(LiqPeriod.year, LiqPeriod.month),
                          rent_amount |-> 500 * (2 ^ (i - 1)), source |-> "Direct"]] :
        f \in {f \in UNION {[1..n -> Props] : n \in 0..MaxBookings} :
                  \A i, j \in DOMAIN f : i < j => f[i] <= f[j]}}

StoreExpenseTables ==
    {[i \in DOMAIN f |-> [id |-> i, property_id |-> f[i],
                          expense_date |-> month_start(LiqPeriod.year, LiqPeriod.month),
                          amount |-> 50 * (2 ^ (i - 1))]] :
        f \in {f \in UNION {[1..n -> Props] : n \in 0..MaxExpenses} :
                  \A i, j \in DOMAIN f : i < j => f[i] >= f[j]}}

\* The commissions typed into "Tu Comision (%)".
CommissionPercentages == {20, 50}

StoreWidgets ==
    {[year |-> LiqPeriod.year, month |-> LiqPeriod.month, type |-> x.type,
      identifier |-> x.identifier, commission_percentage |-> c] :
        x \in {[type |-> "por_propietario", identifier |-> [owner |-> "A"]],
                [type |-> "por_propiedad", identifier |-> [id |-> 1]]},
        c \in CommissionPercentages}

InitLiqStore ==
    /\ bookings \in StoreBookingTables
    /\ bookings_cache = <<>>
    /\ today = 0
    /\ rr = [s \in Sessions |-> RRInit]
    /\ qb = QBInit
    /\ properties = <<[id |-> 1, owner |-> "A"], [id |-> 2, owner |-> "A"]>>
    /\ expenses \in StoreExpenseTables
    /\ liquidations = <<>>
    /\ caches = CachesInit
    /\ tg = TgInit
    /\ liq = LiqInit
    /\ out = OutInit

NextLiqStore ==
    \/ \E w \in StoreWidgets : LiqSelect(w)
    \/ LiqRun
    \/ \E success \in BOOLEAN : LiqCalculate(success)

SpecLiqStore == InitLiqStore /\ [][NextLiqStore]_vars

\* SpecLiqGroup: the calculation applied to the owner of some property and to
\* a name that owns none ("Z").
GroupWidgets ==
    {[year |-> LiqPeriod.year, month |-> LiqPeriod.month, type |-> "por_propietario",
      identifier |-> [owner |-> o], commission_percentage |-> c] :
        o \in {"A", "Z"}, c \in CommissionPercentages}

InitLiqGroup ==
    /\ bookings \in StoreBookingTables
    /\ bookings_cache = <<>>
    /\ today = 0
    /\ rr = [s \in Sessions |-> RRInit]
    /\ qb = QBInit
    /\ properties = Properties0
    /\ expenses \in StoreExpenseTables
    /\ liquidations = <<>>
    /\ caches = CachesInit
    /\ tg = TgInit
    /\ liq \in {[LiqInit EXCEPT !.widgets = w] : w \in GroupWidgets}
    /\ out = OutInit

SpecLiqGroup == InitLiqGroup /\ [][NextLiq]_vars

\* SpecLiqView: the liquidation of the month of the days 0..MaxDay (January
\* of the base year) viewed, calculated and viewed again while bookings are
\* added through the Alquileres form.
ViewWidgets ==
    {[year |-> CalendarBase.year, month |-> 1, type |-> x.type,
      identifier |-> x.identifier, commission_percentage |-> 50] :
        x \in {[type |-> "por_propietario", identifier |-> [owner |-> "A"]],
                [type |-> "por_propiedad", identifier |-> [id |-> 1]]}}

InitLiqView ==
    /\ bookings = <<>>
    /\ bookings_cache = <<>>
    /\ today = 0
    /\ rr = [s \in Sessions |-> RRInit]
    /\ qb = QBInit
    /\ properties = Properties0
    /\ expenses \in {<<>>, <<[id |-> 1, property_id |-> 1, expense_date |-> 0,
                              amount |-> 50]>>}
    /\ liquidations = <<>>
    /\ caches = CachesInit
    /\ tg = TgInit
    /\ liq = LiqInit
    /\ out = OutInit

NextLiqView ==
    \/ \E w \in ViewWidgets : LiqSelect(w)
    \/ LiqRun
    \/ \E success \in BOOLEAN : LiqCalculate(success)
    \/ \E p \in Props, start \in Dates, end \in Dates, rent \in Rents,
          success \in BOOLEAN : AddBookingForm(p, start, end, rent, success)

SpecLiqView == InitLiqView /\ [][NextLiqView]_vars

\* SpecDaily: the report of a liquidation for months of 28, 29, 30 and 31
\* days, over bookings and expenses dated at both ends of the month.
DailyPeriods ==
    {[year |-> 2023, month |-> 2], [year |-> 2024, month |-> 2],
     [year |-> 2024, month |-> 4], [year |-> 2024, month |-> 12]}

DailyBookingTables(period) ==
    {[i \in DOMAIN f |-> [id |-> i, property_id |-> f[i].property_id,
                          tenant_name |-> "tenant", start_date |-> f[i].end_date - 1,
                          end_date |-> f[i].end_date,
                          rent_amount |-> 100 * (2 ^ (i - 1)), source |-> "Direct"]] :
        f \in {f \in UNION {[1..n -> [property_id : Props,
                                      end_date : {month_start(period.year, period.month),
                                                  month_end(period.year, period.month),
                                                  month_end(period.year, period.month) + 1}]] :
                                n \in 0..MaxBookings} :
                  InsertedInOrder(f, "end_date")}}

DailyExpenseTables(period) ==
    {[i \in DOMAIN f |-> [id |-> i, property_id |-> f[i].property_id,
                          expense_date |-> f[i].expense_date,
                          amount |-> 10 * (2 ^ (i - 1))]] :
        f \in {f \in UNION {[1..n -> [property_id : Props,
                                      expense_date : {month_start(period.year, period.month),
                                                      month_end(period.year, period.month)}]] :
                                n \in 0..MaxExpenses} :
                  InsertedInOrder(f, "expense_date")}}

DailyWidgets(period) ==
    {[year |-> period.year, month |-> period.month, type |-> x.type,
      identifier |-> x.identifier, commission_percentage |-> 50] :
        x \in {[type |-> "por_propietario", identifier |-> [owner |-> "A"]],
                [type |-> "por_propiedad", identifier |-> [id |-> 1]]}}

InitDaily ==
    \E period \in DailyPeriods :
        /\ bookings \in DailyBookingTables(period)
        /\ bookings_cache = <<>>
        /\ today = 0
        /\ rr = [s \in Sessions |-> RRInit]
        /\ qb = QBInit
        /\ properties = Properties0
        /\ expenses \in DailyExpenseTables(period)
        /\ liquidations = <<>>
        /\ caches = CachesInit
        /\ tg = TgInit
        /\ liq \in {[LiqInit EXCEPT !.widgets = w] : w \in DailyWidgets(period)}
        /\ out = OutInit

SpecDaily == InitDaily /\ [][NextLiq]_vars

\* SpecLiqAmounts: the liquidation over rows whose amount cell holds a
\* number, NULL (bookings only: expenses.amount is NOT NULL) or a text.
AmountBookingTables ==
    {[i \in DOMAIN f |->
        LET row == [id |-> i, property_id |-> f[i].property_id,
                    tenant_name |-> "tenant",
                    start_date |-> month_end(LiqPeriod.year, LiqPeriod.month) - 1,
                    end_date |-> month_end(LiqPeriod.year, LiqPeriod.month),
                    source |-> "Direct"]
        IN IF f[i].cell = "real" THEN row @@ [rent_amount |-> 100 * (2 ^ (i - 1))]
           ELSE IF f[i].cell = "text" THEN row @@ [rent_amount_text |-> "abc"]
           ELSE row] :
        f \in UNION {[1..n -> [property_id : Props, cell : {"real", "null", "text"}]] :
                        n \in 0..MaxBookings}}

AmountExpenseTables ==
    {[i \in DOMAIN f |->
        LET row == [id |-> i, property_id |-> f[i].property_id,
                    expense_date |-> month_start(LiqPeriod.year, LiqPeriod.month)]
        IN IF f[i].cell = "real" THEN row @@ [amount |-> 10 * (2 ^ (i - 1))]
           ELSE row @@ [amount_text |-> "abc"]] :
        f \in UNION {[1..n -> [property_id : Props, cell : {"real", "text"}]] :
                        n \in 0..MaxExpenses}}

InitLiqAmounts ==
    /\ bookings \in AmountBookingTables
    /\ bookings_cache = <<>>
    /\ today = 0
    /\ rr = [s \in Sessions |-> RRInit]
    /\ qb = QBInit
    /\ properties = Properties0
    /\ expenses \in AmountExpenseTables
    /\ liquidations = <<>>
    /\ caches = CachesInit
    /\ tg = TgInit
    /\ liq \in {[LiqInit EXCEPT !.widgets = w] : w \in LiqWidgets(properties)}
    /\ out = OutInit

SpecLiqAmounts == InitLiqAmounts /\ [][NextLiq]_vars

\* SpecBot: the two sessions of SpecRace confirming while the Telegram bot
\* adds bookings.
NextBot ==
    \/ NextRace
    \/ \E p \in Props, start \in Dates, end \in Dates, rent \in Rents,
          success \in BOOLEAN : TelegramConfirm(p, start, end, rent, success)

SpecBot == InitRace /\ [][NextBot]_vars

\* SpecCache: one process that loads and writes the three tables.
Owners == {"A", "B"}

InitCache ==
    /\ bookings = <<>>
    /\ bookings_cache = <<>>
    /\ caches = CachesInit
    /\ tg = TgInit
    /\ today = 0
    /\ rr = [s \in Sessions |-> RRInit]
    /\ qb = QBInit
    /\ properties = <<[id |-> 1, owner |-> "A"]>>
    /\ expenses = <<>>
    /\ liquidations = <<>>
    /\ liq = LiqInit
    /\ out = OutInit

NextCache ==
    \/ \E which \in {"load_properties", "load_bookings", "load_expenses"} :
          CallLoad(which)
    \/ \E owner \in Owners, success \in BOOLEAN : CallAddProperty(owner, success)
    \/ \E p \in Props, owner \in Owners, success \in BOOLEAN :
          CallUpdateProperty(p, owner, success)
    \/ \E p \in Props, rent \in Rents, success \in BOOLEAN :
          CallAddBooking(p, 0, 1, rent, success)
    \/ \E p \in Props, amount \in Rents, success \in BOOLEAN :
          CallAddExpense(p, 0, amount, success)

SpecCache == InitCache /\ [][NextCache]_vars

\* ------------------------------------------------------------ properties

\* [s, e) and the booking b share a day (spec 4.2)
Overlap(s, e, b) == Max(s, b.start_date) < Min(e, b.end_date)

\* some booking of the property in the table overlaps [s, e)
SomeOverlap(df, property_id, s, e) ==
    \E i \in 1..Len(df) : df[i].property_id = property_id /\ Overlap(s, e, df[i])

\* a step in which session s draws the page, and one in which it runs the
\* final check
PageStep(s) == rr[s].pc = "page" /\ rr'[s].pc = "page" /\ rr'[s] # rr[s]
FinalCheckStep(s) == rr[s].pc = "page" /\ rr'[s].pc = "checked"
ConfirmEndStep(s) == rr[s].pc = "checked" /\ rr'[s].pc = "page"

\* C1: the advisory check and the final check of Reserva Rapida report a
\* conflict for the candidate [s, e), e > s, exactly when some booking of the
\* same property in the table they loaded satisfies max(s,bs) < min(e,be);
\* bookings of other properties never count.
C1_ConflictIffOverlap ==
    [][\A s \in Sessions :
         /\ (PageStep(s) /\ rr'[s].end_date > rr'[s].start_date)
               => ((rr'[s].conflict # 0)
                     <=> SomeOverlap(load_bookings, rr'[s].property_id,
                                     rr'[s].start_date, rr'[s].end_date))
         /\ FinalCheckStep(s)
               => ((rr'[s].conflict # 0)
                     <=> SomeOverlap(load_bookings, rr[s].property_id,
                                     rr[s].start_date, rr[s].end_date))]_vars

\* a final check reported a conflict with a booking that is not the first row,
\* while a booking of the other property overlaps the candidate too
C1_Witness ==
    \E s \in Sessions :
        /\ rr[s].pc = "checked"
        /\ rr[s].conflict > 1
        /\ \E i \in 1..Len(rr[s].latest_bookings) :
              /\ rr[s].latest_bookings[i].property_id # rr[s].property_id
              /\ Overlap(rr[s].start_date, rr[s].end_date, rr[s].latest_bookings[i])

\* C3: when the final check found a conflict, the confirmation ends without
\* add_booking: the bookings table is unchanged, the page shows the conflict
\* error and keeps the dates, so the user has to confirm again.
C3_ConflictAborts ==
    [][\A s \in Sessions :
         (ConfirmEndStep(s) /\ rr[s].conflict # 0)
            => /\ bookings' = bookings
               /\ rr'[s].notice = "conflict_error"
               /\ rr'[s].start_date = rr[s].start_date
               /\ rr'[s].end_date = rr[s].end_date]_vars

\* a confirmation was aborted because of a booking stored by the other session
C3_Witness ==
    \E s \in Sessions :
        /\ rr[s].notice = "conflict_error"
        /\ Len(bookings) > 0
        /\ SomeOverlap(bookings, rr[s].property_id, rr[s].start_date, rr[s].end_date)

\* C6: a confirmation stores a booking that overlaps nothing in the table its
\* final check loaded, so the final check narrows the window; two overlapping
\* bookings of one property are stored nevertheless when both sessions run
\* the final check before either stores (the witness).
C6_StoredClearOfCheckedTable ==
    [][\A s \in Sessions :
         (ConfirmEndStep(s) /\ Len(bookings') > Len(bookings))
            => LET r == bookings'[Len(bookings')]
               IN ~SomeOverlap(rr[s].latest_bookings, r.property_id,
                               r.start_date, r.end_date)]_vars

\* both sessions passed the final check and both bookings are stored
C6_Witness ==
    \E i, j \in 1..Len(bookings) :
        /\ i < j
        /\ bookings[i].property_id = bookings[j].property_id
        /\ bookings[i].source = "Reserva Rapida (Cal/Manual)"
        /\ bookings[j].source = "Reserva Rapida (Cal/Manual)"
        /\ Overlap(bookings[i].start_date, bookings[i].end_date, bookings[j])

\* the table has a booking of the property that touches [s, e) at one end
Adjacent(df, property_id, s, e) ==
    \E i \in 1..Len(df) :
        /\ df[i].property_id = property_id
        /\ df[i].end_date > df[i].start_date
        /\ (df[i].end_date = s \/ df[i].start_date = e)

\* C2: on the Reserva Rapida page and on the Quick Booking page, a candidate
\* [s, e), e > s, that touches a booking of the property at one end and shares
\* no day with any booking of the property is shown as available, not as a
\* conflict.
C2_AdjacentIsAvailable ==
    [][/\ (qb' # qb /\ qb'.end_date > qb'.start_date
              /\ Adjacent(load_bookings, qb'.property_id, qb'.start_date, qb'.end_date)
              /\ ~SomeOverlap(load_bookings, qb'.property_id, qb'.start_date,
                              qb'.end_date))
           => qb'.shown = "available"
       /\ \A s \in Sessions :
            (PageStep(s) /\ rr'[s].end_date > rr'[s].start_date
                /\ Adjacent(load_bookings, rr'[s].property_id, rr'[s].start_date,
                            rr'[s].end_date)
                /\ ~SomeOverlap(load_bookings, rr'[s].property_id, rr'[s].start_date,
                                rr'[s].end_date))
              => rr'[s].conflict = 0]_vars

\* C4: a booking is stored only when it overlaps no booking of the same
\* property already in the table.
C4_StoredOverlapsNothing ==
    [][Len(bookings') > Len(bookings)
         => LET r == bookings'[Len(bookings')]
            IN ~SomeOverlap(bookings, r.property_id, r.start_date, r.end_date)]_vars

\* C5: every stored booking ends strictly after it starts.
C5_EndAfterStart ==
    \A i \in 1..Len(bookings) : bookings[i].end_date > bookings[i].start_date

\* C7: get_occupied_dates returns exactly the dates d with
\* start_date <= d < end_date for some booking of the property.
C7_OccupiedDatesExact ==
    out.op = "occupied"
      => out.result = {d \in Dates :
                         \E i \in 1..Len(bookings) :
                             /\ bookings[i].property_id = out.property_id
                             /\ bookings[i].start_date <= d
                             /\ d < bookings[i].end_date}

\* the set holds a night of the property while the checkout date of one of its
\* bookings and a night of the other property are left out
C7_Witness ==
    /\ out.op = "occupied"
    /\ out.result # {}
    /\ \E i \in 1..Len(bookings) :
          /\ bookings[i].property_id = out.property_id
          /\ bookings[i].end_date > bookings[i].start_date
          /\ bookings[i].end_date \notin out.result
    /\ \E i \in 1..Len(bookings) :
          /\ bookings[i].property_id # out.property_id
          /\ bookings[i].start_date < bookings[i].end_date
          /\ bookings[i].start_date \notin out.result

\* d lies in no booking of the property
FreeOn(df, property_id, d) ==
    \A i \in 1..Len(df) :
        df[i].property_id = property_id
          => ~(df[i].start_date <= d /\ d < df[i].end_date)

\* C8: whatever the order of the rows and whether or not they overlap, the
\* walk of get_first_available_date_for_property returns the first date on or
\* after the reference date that no booking of the property covers: a booking
\* covering the cursor moves it to the booking's end_date itself, no day is
\* added, and without bookings the reference date is returned.
C8_FirstAvailableIsFirstFree ==
    out.op = "first_available"
      => /\ out.result >= today
         /\ FreeOn(bookings, out.property_id, out.result)
         /\ \A d \in today..(out.result - 1) : ~FreeOn(bookings, out.property_id, d)
         /\ (FilterProperty(bookings, out.property_id) = <<>> => out.result = today)

\* the walk went over two bookings stored out of order and stopped on the
\* end_date of the later one
C8_Witness ==
    /\ out.op = "first_available"
    /\ out.result > today
    /\ \E i, j \in 1..Len(bookings) :
          /\ i < j
          /\ bookings[i].property_id = out.property_id
          /\ bookings[j].property_id = out.property_id
          /\ bookings[j].start_date < bookings[i].start_date
          /\ bookings[i].end_date = out.result

\* C9: the occupancy overview reports a property as occupied today exactly
\* when some booking of it has start_date <= today < end_date; on a checkout
\* date that no other booking covers the property is reported free.
C9_CheckoutDayFree ==
    out.op = "overview"
      => \A k \in 1..Len(properties) :
            (out.result[k].status_label = "Ocupado")
               <=> ~FreeOn(bookings, properties[k].id, today)

\* the first and the last day of the month, counted from the calendar
FirstDayOfMonth(year, month) == DaysBeforeMonth(year, month)
LastDayOfMonth(year, month) ==
    (IF month = 12 THEN DaysBeforeMonth(year + 1, 1)
     ELSE DaysBeforeMonth(year, month + 1)) - 1

\* the properties a liquidation is for
ResolvedSet(w) ==
    IF w.type = "por_propietario"
    THEN {properties[k].id : k \in {k \in 1..Len(properties) :
                                       properties[k].owner = w.identifier.owner}}
    ELSE {w.identifier.id}

RECURSIVE SumOf(_, _, _)
SumOf(table, rows, field) ==
    IF rows = {} THEN 0
    ELSE LET i == CHOOSE i \in rows : TRUE
         IN table[i][field] + SumOf(table, rows \ {i}, field)

\* C10: a calculated liquidation has as total_income the rents of exactly the
\* bookings of the resolved properties whose end_date lies between the first
\* and the last day of the month, both included, and as total_expenses the
\* amounts of exactly the expenses of those properties whose expense_date lies
\* in that window; a booking that checks out in another month adds nothing.
C10_InclusionByCheckout ==
    (liq.just_calculated /\ liq.results # None)
      => LET w == liq.widgets
             first == FirstDayOfMonth(w.year, w.month)
             last == LastDayOfMonth(w.year, w.month)
             counted == {i \in 1..Len(bookings) :
                            /\ bookings[i].property_id \in ResolvedSet(w)
                            /\ first <= bookings[i].end_date
                            /\ bookings[i].end_date <= last}
             spent == {i \in 1..Len(expenses) :
                            /\ expenses[i].property_id \in ResolvedSet(w)
                            /\ first <= expenses[i].expense_date
                            /\ expenses[i].expense_date <= last}
         IN /\ liq.results.total_income = SumOf(bookings, counted, "rent_amount")
            /\ liq.results.total_expenses = SumOf(expenses, spent, "amount")

\* a liquidation by owner over two properties counted a booking checking out
\* on the last day of the month and an expense, and left out a booking of the
\* owner that spends its night in the month and checks out on the next day
C10_Witness ==
    /\ liq.just_calculated /\ liq.results # None
    /\ liq.widgets.type = "por_propietario"
    /\ Cardinality(ResolvedSet(liq.widgets)) = 2
    /\ liq.results.total_expenses > 0
    /\ \E i, j \in 1..Len(bookings) :
          /\ bookings[i].property_id \in ResolvedSet(liq.widgets)
          /\ bookings[j].property_id \in ResolvedSet(liq.widgets)
          /\ bookings[i].end_date = LastDayOfMonth(liq.widgets.year, liq.widgets.month)
          /\ bookings[j].end_date = bookings[i].end_date + 1
          /\ liq.results.total_income = bookings[i].rent_amount

\* the rents of the bookings and the amounts of the expenses a liquidation
\* for the selection w includes
IncludedIncome(w) ==
    SumOf(bookings,
          {i \in 1..Len(bookings) :
              /\ bookings[i].property_id \in ResolvedSet(w)
              /\ FirstDayOfMonth(w.year, w.month) <= bookings[i].end_date
              /\ bookings[i].end_date <= LastDayOfMonth(w.year, w.month)},
          "rent_amount")

IncludedExpenses(w) ==
    SumOf(expenses,
          {i \in 1..Len(expenses) :
              /\ expenses[i].property_id \in ResolvedSet(w)
              /\ FirstDayOfMonth(w.year, w.month) <= expenses[i].expense_date
              /\ expenses[i].expense_date <= LastDayOfMonth(w.year, w.month)},
          "amount")

\* C11: a computed liquidation has commission_amount = total_income *
\* commission_percentage / 100 and owner_net = total_income - total_expenses
\* - commission_amount, over the sums of the included bookings and expenses.
C11_CommissionAndNet ==
    (liq.just_calculated /\ liq.results # None)
      => LET r == liq.results
         IN /\ r.total_income = IncludedIncome(liq.widgets)
            /\ r.total_expenses = IncludedExpenses(liq.widgets)
            /\ r.commission_percentage = liq.widgets.commission_percentage
            /\ 100 * r.commission_amount = r.total_income * r.commission_percentage
            /\ r.owner_net = r.total_income - r.total_expenses - r.commission_amount

\* the owner's liquidation at 20 per cent over one booking of 500 on one
\* property and one expense of 50 on the other: 500, 50, 100, 350
C11_Witness ==
    /\ liq.just_calculated /\ liq.results # None
    /\ liq.widgets.type = "por_propietario"
    /\ liq.widgets.commission_percentage = 20
    /\ Len(bookings) = 1 /\ bookings[1].rent_amount = 500
    /\ Len(expenses) = 1 /\ expenses[1].amount = 50
    /\ expenses[1].property_id # bookings[1].property_id
    /\ liq.results.total_income = 500
    /\ liq.results.total_expenses = 50
    /\ liq.results.commission_amount = 100
    /\ liq.results.owner_net = 350

\* C12: a liquidation requested for an identifier that resolves to no
\* property yields a result whose four totals are zero, flagged as the
\* outcome of an empty group.
C12_EmptyGroupZeroResult ==
    (liq.just_calculated /\ ResolvedSet(liq.widgets) = {})
      => /\ liq.results # None
         /\ liq.results.total_income = 0
         /\ liq.results.total_expenses = 0
         /\ liq.results.commission_amount = 0
         /\ liq.results.owner_net = 0
         /\ liq.notice = "no_properties"

\* the four totals of a result or of a stored row
Totals(r) == <<r.total_income, r.total_expenses, r.commission_amount, r.owner_net>>

\* the rows stored for the selection w
StoredFor(table, w) ==
    {k \in 1..Len(table) : SameKey(table[k], w.year, w.month, w.type, w.identifier)}

\* C13: over unchanged properties, bookings and expenses, a calculation for
\* the year, month, group and commission of an earlier one (the one held in
\* the session, or the one stored) yields the same four totals, and leaves
\* the stored totals as they were.
C13_RecalculationIdempotent ==
    [][(liq'.just_calculated /\ liq'.results # None /\ liq'.widgets = liq.widgets
        /\ properties' = properties /\ bookings' = bookings /\ expenses' = expenses)
         => /\ (liq.results # None
                  /\ liq.results.commission_percentage
                        = liq.widgets.commission_percentage
                  /\ liq.notice # "loaded_other_commission")
                 => Totals(liq'.results) = Totals(liq.results)
            /\ \A k \in StoredFor(liquidations, liq.widgets) :
                 liquidations[k].commission_percentage
                        = liq.widgets.commission_percentage
                   => /\ Totals(liq'.results) = Totals(liquidations[k])
                      /\ k \in StoredFor(liquidations', liq.widgets)
                      /\ Totals(liquidations'[k]) = Totals(liquidations[k])]_vars

\* a liquidation with income recalculated and saved again at the commission
\* of the stored one
C13_Witness ==
    /\ liq.just_calculated /\ liq.notice = "recalculada"
    /\ liq.results # None /\ liq.results.total_income > 0
    /\ liq.results.total_expenses > 0
    /\ \E k \in StoredFor(liquidations, liq.widgets) :
         /\ liquidations[k].commission_percentage = liq.widgets.commission_percentage
         /\ Totals(liquidations[k]) = Totals(liq.results)

\* the sum of a total over the sections of a daily breakdown
RECURSIVE SumSections(_, _, _)
SumSections(sections, days, field) ==
    IF days = {} THEN 0
    ELSE LET d == CHOOSE d \in days : TRUE
         IN sections[d][field] + SumSections(sections, days \ {d}, field)

\* C14: whenever the page shows a liquidation, calculated in this run or
\* held or loaded from before, the daily income totals of its breakdown add
\* up to the total_income shown and the daily expense totals to the
\* total_expenses shown.
C14_DailyTotalsReconcile ==
    (out.op = "liquidacion" /\ out.result # None /\ liq.results # None)
      => /\ SumSections(out.result.sections, DOMAIN out.result.sections,
                        "daily_income_total") = liq.results.total_income
         /\ SumSections(out.result.sections, DOMAIN out.result.sections,
                        "daily_expense_total") = liq.results.total_expenses

\* the record of day d of a daily breakdown
RecordOf(breakdown, d) ==
    IF d \in DOMAIN breakdown.sections
    THEN breakdown.sections[d]
    ELSE [bookings |-> <<>>, expenses |-> <<>>, daily_income_total |-> 0,
          daily_expense_total |-> 0, daily_net |-> 0]

\* the members of a list
Members(list) == {list[k] : k \in 1..Len(list)}

\* C15: the daily breakdown has one record for each calendar day of the
\* month, from the first to the last (28, 29, 30 or 31, and 29 only for the
\* February of a leap year); the record of day d lists the bookings of the
\* group whose end_date is d and the expenses whose expense_date is d, and
\* its net is its income minus its expense.
C15_OneRecordPerDay ==
    (out.op = "liquidacion" /\ out.result # None /\ liq.just_calculated)
      => LET w == liq.widgets
             first == FirstDayOfMonth(w.year, w.month)
             last == LastDayOfMonth(w.year, w.month)
             b == out.result
         IN /\ b.start = first
            /\ b.periods = last - first + 1
            /\ b.periods \in {28, 29, 30, 31}
            /\ (b.periods = 29) <=> (w.month = 2 /\ IsLeap(w.year))
            /\ DOMAIN b.sections \subseteq first..last
            /\ \A d \in first..last :
                 LET rec == RecordOf(b, d)
                 IN /\ Members(rec.bookings)
                         = {bookings[k].id : k \in {k \in 1..Len(bookings) :
                               /\ bookings[k].property_id \in ResolvedSet(w)
                               /\ bookings[k].end_date = d}}
                    /\ Members(rec.expenses)
                         = {expenses[k].id : k \in {k \in 1..Len(expenses) :
                               /\ expenses[k].property_id \in ResolvedSet(w)
                               /\ expenses[k].expense_date = d}}
                    /\ Len(rec.bookings) = Cardinality(Members(rec.bookings))
                    /\ Len(rec.expenses) = Cardinality(Members(rec.expenses))
                    /\ rec.daily_net = rec.daily_income_total - rec.daily_expense_total

\* the report of February 2024: 29 records, the last with a booking and an
\* expense, while a booking that ends on March 1 is in none
C15_Witness ==
    /\ out.op = "liquidacion" /\ out.result # None /\ liq.just_calculated
    /\ liq.widgets.year = 2024 /\ liq.widgets.month = 2
    /\ out.result.periods = 29
    /\ LET last == LastDayOfMonth(2024, 2)
       IN /\ last \in DOMAIN out.result.sections
          /\ out.result.sections[last].bookings # <<>>
          /\ out.result.sections[last].expenses # <<>>
          /\ out.result.sections[last].daily_net
               = out.result.sections[last].daily_income_total
                   - out.result.sections[last].daily_expense_total
          /\ out.result.sections[last].daily_net > 0
          /\ \E k \in 1..Len(bookings) :
               /\ bookings[k].end_date = last + 1
               /\ bookings[k].property_id \in ResolvedSet(liq.widgets)

\* C16: stored liquidations are keyed by year, month, type, identifier and
\* commission_percentage: a save leaves the rows stored under another
\* commission as they were, and the liquidation loaded for a selection has
\* the commission of the selection.
C16_KeyedByCommission ==
    [][/\ \A k \in 1..Len(liquidations) :
            (liq'.just_calculated /\ liq'.results # None
               /\ liquidations[k].commission_percentage
                     # liq'.results.commission_percentage)
              => /\ k <= Len(liquidations')
                 /\ liquidations'[k] = liquidations[k]
       /\ (~liq'.just_calculated /\ liq'.results # None /\ liq'.params # liq.params)
              => liq'.results.commission_percentage
                    = liq'.widgets.commission_percentage]_vars

\* the rows of a table that a liquidation for w includes, and the sum of
\* their amounts over those that hold a number
IncludedRows(table, date, w) ==
    {i \in 1..Len(table) :
        /\ table[i].property_id \in ResolvedSet(w)
        /\ FirstDayOfMonth(w.year, w.month) <= table[i][date]
        /\ table[i][date] <= LastDayOfMonth(w.year, w.month)}

WellFormed(table, rows, field) == {i \in rows : field \in DOMAIN table[i]}

\* C17: a booking or expense row whose amount is missing or is not a number
\* counts as zero and does not abort the calculation: the liquidation is
\* produced with the sums of the amounts of the other included rows.
C17_BadAmountCountsZero ==
    LET w == liq.widgets
        rows_b == IncludedRows(bookings, "end_date", w)
        rows_e == IncludedRows(expenses, "expense_date", w)
    IN (liq.just_calculated
          /\ (WellFormed(bookings, rows_b, "rent_amount") # rows_b
                \/ WellFormed(expenses, rows_e, "amount") # rows_e))
         => /\ liq.results # None
            /\ liq.results.total_income
                 = SumOf(bookings, WellFormed(bookings, rows_b, "rent_amount"),
                         "rent_amount")
            /\ liq.results.total_expenses
                 = SumOf(expenses, WellFormed(expenses, rows_e, "amount"), "amount")

\* (the same for rows whose amount is missing only: no text among the rows)
MissingAmountCountsZero ==
    (\A i \in 1..Len(bookings) : "rent_amount_text" \notin DOMAIN bookings[i])
      /\ (\A i \in 1..Len(expenses) : "amount_text" \notin DOMAIN expenses[i])
      => C17_BadAmountCountsZero

\* the bookings of the property in a table that overlap the candidate
OverlappingIds(table, property_id, start, end) ==
    {table[i].id : i \in {i \in 1..Len(table) :
        /\ table[i].property_id = property_id
        /\ Overlap(start, end, table[i])}}

\* C18: the advisory check and the final check report every booking of the
\* property that overlaps the candidate: the set of the bookings reported is
\* the set of the bookings b with max(s, b.start) < min(e, b.end).
C18_ReportsEveryOverlap ==
    [][\A s \in Sessions :
         /\ (PageStep(s) /\ rr'[s].end_date > rr'[s].start_date)
               => ({rr'[s].conflict} \ {0})
                     = OverlappingIds(load_bookings, rr'[s].property_id,
                                      rr'[s].start_date, rr'[s].end_date)
         /\ FinalCheckStep(s)
               => ({rr'[s].conflict} \ {0})
                     = OverlappingIds(load_bookings, rr[s].property_id,
                                      rr[s].start_date, rr[s].end_date)]_vars

\* the keys of SpecLiqStore, and what load_liquidation returns for one
StoreKeys ==
    {[year |-> w.year, month |-> w.month, type |-> w.type,
      identifier |-> w.identifier] : w \in StoreWidgets}

Loaded(table, key) ==
    load_liquidation(table, key.year, key.month, key.type, key.identifier)

\* a step that is a calculation whose save succeeded
SavedStep == liq'.just_calculated /\ liq'.notice \in {"calculada", "recalculada"}

\* C19: from an empty table, saves made one at a time leave at most one
\* record per year, month, type and identifier: a save for a stored key
\* updates its record, a save for a new key inserts one; load_liquidation
\* returns the commission and the totals of the latest successful save of the
\* key, and None for a key never saved.
C19_OneRecordPerKey ==
    [][/\ \A key \in StoreKeys :
            /\ Cardinality(StoredFor(liquidations', key)) <= 1
            /\ StoredFor(liquidations, key) \subseteq StoredFor(liquidations', key)
            /\ (StoredFor(liquidations', key) = {}) <=> (Loaded(liquidations', key) = None)
            /\ IF SavedStep /\ SameKey([key EXCEPT !.identifier = ToText(@)],
                                       liq.widgets.year, liq.widgets.month,
                                       liq.widgets.type, liq.widgets.identifier)
               THEN /\ Loaded(liquidations', key) # None
                    /\ Loaded(liquidations', key).commission_percentage
                          = liq'.results.commission_percentage
                    /\ Totals(Loaded(liquidations', key)) = Totals(liq'.results)
                    /\ Len(liquidations')
                          = IF StoredFor(liquidations, key) = {}
                            THEN Len(liquidations) + 1 ELSE Len(liquidations)
               ELSE Loaded(liquidations', key) = Loaded(liquidations, key)]_vars

\* both keys stored, the one of the selection saved again at 20 per cent
\* over the record it had at 50 while the other keeps its own
C19_Witness ==
    /\ Len(liquidations) = 2
    /\ liq.just_calculated /\ liq.notice = "recalculada"
    /\ liq.widgets.commission_percentage = 20
    /\ liq.results.total_income > 0
    /\ \E key \in StoreKeys :
         /\ key.identifier = liq.widgets.identifier
         /\ Loaded(liquidations, key).commission_percentage = 20
         /\ Totals(Loaded(liquidations, key)) = Totals(liq.results)
    /\ \E key \in StoreKeys :
         /\ key.identifier # liq.widgets.identifier
         /\ Loaded(liquidations, key) # None
         /\ Loaded(liquidations, key).commission_percentage = 50

\* C20: the final check of Reserva Rapida compares the candidate with the
\* latest persisted data: every booking committed before the check, by this
\* session, another session or the Telegram bot, is in the table it uses.
C20_FinalCheckSeesCommitted ==
    [][\A s \in Sessions :
         FinalCheckStep(s)
            => \A i \in 1..Len(bookings) :
                 \E j \in 1..Len(rr'[s].latest_bookings) :
                     rr'[s].latest_bookings[j] = bookings[i]]_vars

\* the rows of a table
Rows(table) == {table[k] : k \in 1..Len(table)}

\* C21: within the process, after add_property, update_property, add_booking
\* or add_expense returned True the load function of the table returns a
\* table with the written row; after one returned False the database is as
\* it was and each load function returns what it returned before.
C21_LoadAfterWrite ==
    [][(out'.op \in {"add_property", "update_property", "add_booking", "add_expense"})
         => IF out'.result
            THEN /\ (out'.op \in {"add_property", "update_property"})
                       => out'.written \in Rows(load_properties')
                 /\ (out'.op = "add_booking") => out'.written \in Rows(load_bookings')
                 /\ (out'.op = "add_expense") => out'.written \in Rows(load_expenses')
            ELSE /\ <<properties, bookings, expenses>>' = <<properties, bookings, expenses>>
                 /\ load_properties' = load_properties
                 /\ load_bookings' = load_bookings
                 /\ load_expenses' = load_expenses]_vars

\* a property whose owner was changed after the properties had been loaded
\* and cached: the next load has the new owner
C21_Witness ==
    /\ out.op = "update_property" /\ out.result /\ out.cached
    /\ out.written.owner = "B"
    /\ out.written \in Rows(load_properties)
    /\ [id |-> out.written.id, owner |-> "A"] \notin Rows(load_properties)



\* SpecWizard: the bot's process; its chats send messages and press buttons
\* in any order, as Telegram delivers them.
InitWizard ==
    /\ bookings = <<>>
    /\ bookings_cache = <<>>
    /\ caches = CachesInit
    /\ tg = TgInit
    /\ today = 0
    /\ rr = [s \in Sessions |-> RRInit]
    /\ qb = QBInit
    /\ properties = <<[id |-> 1, owner |-> "A"]>>
    /\ expenses = <<>>
    /\ liquidations = <<>>
    /\ liq = LiqInit
    /\ out = OutInit

WizardChats == {"c1"}

\* The texts a chat sends: any of Texts where a handler that validates its
\* input is waiting, one text where every waiting handler takes any text.
Validating == {"process_property_name", "process_rent_amount", "process_rent_currency"}
Answers(chat_id) ==
    IF tg.next[chat_id] \cap Validating # {} THEN Texts ELSE {"casa"}

NextWizard ==
    \/ \E chat_id \in WizardChats : TgCommand(chat_id)
    \/ \E chat_id \in WizardChats : \E text \in Answers(chat_id) :
          TgMessage(chat_id, text)
    \/ \E chat_id \in WizardChats, calendar_id \in {1, 2}, result \in TgDates :
          TgCalendar(chat_id, calendar_id, result)
    \/ \E chat_id \in WizardChats, success \in BOOLEAN, sent \in BOOLEAN :
          TgYes(chat_id, success, sent)
    \/ \E chat_id \in WizardChats : TgNo(chat_id)

SpecWizard == InitWizard /\ [][NextWizard]_vars


\* The row dm.add_booking makes of a chat's answers.
RowOf(table, data) ==
    NewRow(table, data.property_id, data.tenant_name, data.start_date,
           data.end_date, data.rent_amount, data.source)

\* A step changes the table only by handling 'Si' for a chat whose entry holds
\* the eight answers, and what it appends is the row of those answers.
PersistStep ==
    (bookings' # bookings) =>
        /\ tg'.event.kind = "yes_done"
        /\ Complete(tg.booking_data[tg'.event.chat])
        /\ bookings' = Append(bookings, RowOf(bookings, tg.booking_data[tg'.event.chat]))

\* A step that stores an answer the entry did not have finds every earlier
\* answer of the wizard in it.
OrderStep ==
    \A chat_id \in Chats, k \in 1..Len(Fields) :
        (Has(tg'.booking_data[chat_id], Fields[k])
            /\ ~Has(tg.booking_data[chat_id], Fields[k]))
        => \A j \in 1..(k - 1) : Has(tg'.booking_data[chat_id], Fields[j])

\* Handling 'No' leaves the table alone and the chat without an entry.
NoStep ==
    (tg' # tg /\ tg'.event.kind = "no") =>
        /\ bookings' = bookings
        /\ tg'.booking_data[tg'.event.chat] = Absent

\* C22: the booking wizard persists a booking only when 'Si' is handled for
\* a chat, with exactly the answers collected in that chat's run, which are
\* collected in the order property, tenant, start, end, amount, currency,
\* source, notes, confirmation; 'No' persists nothing and removes the chat's
\* pending data.
C22_PersistsCollectedOnConfirm == [][PersistStep /\ OrderStep /\ NoStep]_vars

\* A handler answers "try again" when the last event of the chat sent one of
\* the three refusals.
Refusals ==
    [invalid_property |-> "process_property_name",
     invalid_amount |-> "process_rent_amount",
     invalid_currency |-> "process_rent_currency"]

\* C23: when the booking wizard refuses an input with a "try again" reply
\* (unknown property name, amount that is no number or negative, currency
\* outside the list) it stays at that step: the handler of the refused field
\* is the one that takes the chat's next message.
C23_RefusedInputStaysAtStep ==
    [][\A refusal \in DOMAIN Refusals :
          (tg' # tg /\ tg'.event.kind = "message" /\ refusal \in tg'.event.replies)
          => Refusals[refusal] \in tg'.next[tg'.event.chat]]_vars


\* SpecConfirm: two chats whose wizards have reached the confirmation, each
\* with its own answers; their buttons are pressed in any order and the
\* presses are handled by the bot's worker threads.
Answered(chat_id, tenant_name) ==
    [chat |-> chat_id, property_id |-> 1, tenant_name |-> tenant_name,
     start_date |-> 0, end_date |-> 1, rent_amount |-> 100,
     rent_currency |-> "ARS", source |-> "casa", notes |-> "casa"]

InitConfirm ==
    /\ bookings = <<>>
    /\ bookings_cache = <<>>
    /\ caches = CachesInit
    /\ tg = [TgInit EXCEPT !.booking_data =
                [c \in Chats |-> Answered(c, IF c = "c1" THEN "casa" ELSE "100")]]
    /\ today = 0
    /\ rr = [s \in Sessions |-> RRInit]
    /\ qb = QBInit
    /\ properties = <<[id |-> 1, owner |-> "A"]>>
    /\ expenses = <<>>
    /\ liquidations = <<>>
    /\ liq = LiqInit
    /\ out = OutInit

NextConfirm ==
    \/ \E chat_id \in Chats, t \in 1..NumThreads : TgYesRead(chat_id, t)
    \/ \E t \in 1..NumThreads, success \in BOOLEAN, sent \in BOOLEAN :
          TgYesFinish(t, success, sent)
    \/ \E chat_id \in Chats : TgNo(chat_id)
    \/ \E chat_id \in Chats, calendar_id \in {1, 2}, result \in TgDates :
          TgCalendar(chat_id, calendar_id, result)
    \/ \E chat_id \in Chats : TgCommand(chat_id)

SpecConfirm == InitConfirm /\ [][NextConfirm]_vars

\* A step that adds a booking for a chat consumes the chat's pending data:
\* the entry is there before the step and gone after it.
OneBookingStep ==
    (bookings' # bookings) =>
        /\ tg.booking_data[tg'.event.chat] # Absent
        /\ tg'.booking_data[tg'.event.chat] = Absent

\* A step changes the entry and the next-step handlers of the chat of its
\* event only.
IsolationStep ==
    \A chat_id \in Chats :
        (tg'.booking_data[chat_id] # tg.booking_data[chat_id]
            \/ tg'.next[chat_id] # tg.next[chat_id])
        => tg'.event.chat = chat_id

\* C30: one run of the wizard persists at most one booking: handling a
\* confirmation removes the chat's pending data, so that a repeated 'Si' adds
\* nothing, and the events of a chat never touch the pending data of another
\* chat.
C30_OneBookingPerRun == [][OneBookingStep /\ IsolationStep]_vars


\* ------------------------------------------- pages/01 Ocupacion, monthly view

\* .dt.year and .dt.month of a date.
CalendarYears == CalendarBase.year..(CalendarBase.year + 2)
YearOf(date) ==
    CHOOSE year \in CalendarYears :
        DaysBeforeMonth(year, 1) <= date /\ date < DaysBeforeMonth(year + 1, 1)
MonthOf(date) ==
    CHOOSE month \in 1..12 :
        /\ month_start(YearOf(date), month) <= date
        /\ date <= month_end(YearOf(date), month)

\* Line 430: the years in which some booking starts.
available_years(bookings_df) ==
    {YearOf(bookings_df[k].start_date) : k \in 1..Len(bookings_df)}

\* Line 435: the bookings that start in the selected year.
yearly_bookings(bookings_df, selected_year) ==
    SelectSeq(bookings_df, LAMBDA row : YearOf(row.start_date) = selected_year)

\* Lines 439-454, calculate_monthly_occupancy: pd.date_range(start, end) of
\* every row, both ends included, flattened to one list; the number of
\* entries of the list per .dt.month, months without one filled with 0.
RECURSIVE CountInMonth(_, _)
CountInMonth(df, month) ==
    IF df = <<>> THEN 0
    ELSE Cardinality({date \in Head(df).start_date..Head(df).end_date :
                         MonthOf(date) = month})
           + CountInMonth(Tail(df), month)

calculate_monthly_occupancy(df) == [month \in 1..12 |-> CountInMonth(df, month)]

\* Lines 457-467: one row of the table per property with a booking that
\* starts in the year.
monthly_occupancy(bookings_df, selected_year) ==
    LET yearly == yearly_bookings(bookings_df, selected_year)
    IN  [p \in {yearly[k].property_id : k \in 1..Len(yearly)} |->
            calculate_monthly_occupancy(
                SelectSeq(yearly, LAMBDA row : row.property_id = p))]

\* A run of the page with a year chosen in the selectbox.
MonthlyOccupancy(selected_year) ==
    /\ LET df == load_bookings
       IN /\ selected_year \in available_years(df)
          /\ bookings_cache' = <<df>>
          /\ out' = [op |-> "monthly", property_id |-> 0, year |-> selected_year,
                     result |-> monthly_occupancy(df, selected_year)]
    /\ UNCHANGED notRead

\* SpecOccupancy: the monthly view over bookings of one night or more around
\* the turn of a year.
OccupancyDates ==
    {DaysBeforeMonth(2024, 1) - 2, DaysBeforeMonth(2024, 1) - 1,
     DaysBeforeMonth(2024, 1), DaysBeforeMonth(2024, 1) + 1}

OccupancyTables ==
    {MkTable(f) :
        f \in UNION {[1..n -> {r \in [property_id : Props, start_date : OccupancyDates,
                                      end_date : OccupancyDates] :
                                 r.end_date > r.start_date}] :
                        n \in 0..MaxBookings}}

InitOccupancy ==
    /\ bookings \in OccupancyTables
    /\ bookings_cache = <<>>
    /\ caches = CachesInit
    /\ tg = TgInit
    /\ today = 0
    /\ rr = [s \in Sessions |-> RRInit]
    /\ qb = QBInit
    /\ properties = Properties0
    /\ expenses = <<>>
    /\ liquidations = <<>>
    /\ liq = LiqInit
    /\ out = OutInit

NextOccupancy == \E selected_year \in CalendarYears : MonthlyOccupancy(selected_year)

SpecOccupancy == InitOccupancy /\ [][NextOccupancy]_vars

\* The dates of a month of a year that fall within [start_date, end_date) of
\* some booking of the property.
OccupiedInMonth(p, year, month) ==
    {date \in FirstDayOfMonth(year, month)..LastDayOfMonth(year, month) :
        \E k \in 1..Len(bookings) :
            /\ bookings[k].property_id = p
            /\ bookings[k].start_date <= date
            /\ date < bookings[k].end_date}

\* C24: in the monthly occupancy table the count of a property, year and
\* month is the number of dates of that month of that year that lie within
\* [start_date, end_date) of some booking of the property: check-out dates
\* are not counted, a date covered by two bookings counts once, and the days
\* of another year count in their own year.
C24_MonthlyCountIsOccupiedDates ==
    (out.op = "monthly") =>
        \A p \in DOMAIN out.result, month \in 1..12 :
            out.result[p][month] = Cardinality(OccupiedInMonth(p, out.year, month))


\* The rows of a table from the last to the first.
Reversed(df) == [k \in 1..Len(df) |-> df[Len(df) + 1 - k]]

EveryBookingHasNights(df) == \A k \in 1..Len(df) : df[k].end_date > df[k].start_date

\* C25: over bookings with end_date > start_date, the date returned by
\* get_first_available_date_for_property is the least date on or after the
\* reference date that is not in get_occupied_dates of the property, and it
\* is the same whatever the order of the rows.
C25_FirstAvailableLeastUnoccupied ==
    (out.op = "first_available" /\ EveryBookingHasNights(bookings)) =>
        LET occupied == get_occupied_dates(out.property_id, bookings)
        IN  /\ out.result >= today
            /\ out.result \notin occupied
            /\ \A d \in today..(out.result - 1) : d \in occupied
            /\ out.result = get_first_available_date_for_property(
                                Reversed(bookings), out.property_id, today)

\* two back-to-back bookings of the property, the later one stored first,
\* cover the reference date and the day after it
C25_Witness ==
    /\ out.op = "first_available"
    /\ EveryBookingHasNights(bookings)
    /\ Len(bookings) = 2
    /\ bookings[1].property_id = out.property_id
    /\ bookings[2].property_id = out.property_id
    /\ bookings[2].start_date = today
    /\ bookings[1].start_date = bookings[2].end_date
    /\ out.result = bookings[1].end_date
    /\ today \in get_occupied_dates(out.property_id, bookings)


\* Some night of the candidate [start_date, end_date) is among the occupied
\* dates of the property.
SomeNightOccupied(bookings_df, property_id, start_date, end_date) ==
    \E d \in start_date..(end_date - 1) :
        d \in get_occupied_dates(property_id, bookings_df)

\* C26: the conflict check of Reserva Rapida and get_occupied_dates agree:
\* for a candidate [s, e), e > s, over bookings with end_date > start_date,
\* the advisory and the final check report a conflict exactly when some date
\* d, s <= d < e, is an occupied date of the property.
C26_ConflictIffOccupiedNight ==
    [][\A s \in Sessions :
         EveryBookingHasNights(load_bookings) =>
           /\ (PageStep(s) /\ rr'[s].end_date > rr'[s].start_date)
                 => ((rr'[s].conflict # 0)
                       <=> SomeNightOccupied(load_bookings, rr'[s].property_id,
                                             rr'[s].start_date, rr'[s].end_date))
           /\ FinalCheckStep(s)
                 => ((rr'[s].conflict # 0)
                       <=> SomeNightOccupied(load_bookings, rr[s].property_id,
                                             rr[s].start_date, rr[s].end_date))]_vars

\* the page warns of a conflict with a booking that ends inside the
\* candidate: its first night is occupied, its last night is free
C26_Witness ==
    \E s \in Sessions :
        /\ rr[s].pc = "page"
        /\ rr[s].conflict # 0
        /\ EveryBookingHasNights(bookings)
        /\ rr[s].end_date > rr[s].start_date + 1
        /\ rr[s].start_date \in get_occupied_dates(rr[s].property_id, bookings)
        /\ (rr[s].end_date - 1) \notin get_occupied_dates(rr[s].property_id, bookings)


\* The bookings of every property are pairwise non-overlapping.
PairwiseClear(df) ==
    \A i, j \in 1..Len(df) :
        (i # j /\ df[i].property_id = df[j].property_id)
            => ~Overlap(df[i].start_date, df[i].end_date, df[j])

\* SpecSerial: the sessions of the Streamlit process on Reserva Rapida, over
\* a table of non-overlapping bookings of one night or more; a confirmation
\* (final check, then add_booking or the conflict error) begins only when no
\* other confirmation is under way.  One session opens any property and
\* picks dates, the other books the dates the page suggests for property 1.
NoConfirmationRunning == \A s \in Sessions : rr[s].pc = "page"

InitSerial ==
    /\ bookings \in {t \in Tables : PairwiseClear(t) /\ EveryBookingHasNights(t)}
    /\ bookings_cache = <<>>
    /\ caches = CachesInit
    /\ tg = TgInit
    /\ today = 0
    /\ rr = [s \in Sessions |-> RRInit]
    /\ qb = QBInit
    /\ properties = Properties0
    /\ expenses = <<>>
    /\ liquidations = <<>>
    /\ liq = LiqInit
    /\ out = OutInit

NextSerial ==
    \/ \E s \in Sessions, p \in Props : (s \in Browsing \/ p = 1) /\ RROpen(s, p)
    \/ \E s \in Browsing, start \in Dates, end \in Dates : RRSelect(s, start, end)
    \/ \E s \in Sessions : NoConfirmationRunning /\ RRFinalCheck(s)
    \/ \E s \in Sessions : RRAbort(s)
    \/ \E s \in Sessions, success \in BOOLEAN : RRSave(s, success)

SpecSerial == InitSerial /\ [][NextSerial]_vars

\* C27: from a table whose bookings are pairwise non-overlapping per
\* property, with Reserva Rapida confirmations run one at a time as the only
\* source of bookings, the stored bookings of every property stay pairwise
\* non-overlapping and every one ends after it starts, although the page lets
\* the user confirm while it shows a conflict warning.
C27_SerialConfirmationsKeepClear ==
    PairwiseClear(bookings) /\ EveryBookingHasNights(bookings)

\* a session confirmed dates that a stored Reserva Rapida booking of the
\* property overlaps, and got the conflict error
C27_Witness ==
    \E s \in Sessions :
        /\ rr[s].notice = "conflict_error"
        /\ rr[s].conflict # 0
        /\ \E i \in 1..Len(bookings) :
              /\ bookings[i].source = "Reserva Rapida (Cal/Manual)"
              /\ bookings[i].property_id = rr[s].property_id
              /\ Overlap(rr[s].start_date, rr[s].end_date, bookings[i])


\* SpecLiqMonths: the calculation of the liquidation page run for each of
\* three consecutive months, for one property or for one owner, over bookings
\* that check out on the first or the last day of one of those months.
LiqMonths ==
    <<[year |-> 2023, month |-> 12], [year |-> 2024, month |-> 1],
      [year |-> 2024, month |-> 2]>>

LiqMonthsDates ==
    UNION {{month_start(LiqMonths[i].year, LiqMonths[i].month),
            month_end(LiqMonths[i].year, LiqMonths[i].month)} :
              i \in 1..Len(LiqMonths)}

LiqMonthsTables ==
    {[i \in DOMAIN f |-> [id |-> i, property_id |-> f[i].property_id,
                          tenant_name |-> "tenant", start_date |-> f[i].end_date - 1,
                          end_date |-> f[i].end_date,
                          rent_amount |-> 100 * (2 ^ (i - 1)), source |-> "Direct"]] :
        f \in {f \in UNION {[1..n -> [property_id : Props, end_date : LiqMonthsDates]] :
                                n \in 0..MaxBookings} :
                  InsertedInOrder(f, "end_date")}}

InitLiqMonths ==
    /\ bookings \in LiqMonthsTables
    /\ bookings_cache = <<>>
    /\ caches = CachesInit
    /\ tg = TgInit
    /\ today = 0
    /\ rr = [s \in Sessions |-> RRInit]
    /\ qb = QBInit
    /\ properties \in PropertyTables
    /\ expenses = <<>>
    /\ liquidations = <<>>
    /\ liq = LiqInit
    /\ out = OutInit

\* The widgets of the page for a month, a type and an identifier.
WidgetsFor(period, liq_type, identifier) ==
    [year |-> period.year, month |-> period.month, type |-> liq_type,
     identifier |-> identifier, commission_percentage |-> 50]

\* The results of the calculation for each month of LiqMonths.
LiqEachMonth(liq_type, identifier) ==
    /\ out' = [op |-> "liquidations", property_id |-> 0, type |-> liq_type,
               identifier |-> identifier,
               result |-> [i \in 1..Len(LiqMonths) |->
                             results(load_properties, load_bookings, load_expenses,
                                     WidgetsFor(LiqMonths[i], liq_type, identifier))]]
    /\ bookings_cache' = <<load_bookings>>
    /\ caches' = [properties |-> <<load_properties>>, expenses |-> <<load_expenses>>]
    /\ UNCHANGED <<bookings, today, rr, qb, properties, expenses, liquidations, liq, tg>>

NextLiqMonths ==
    \/ \E k \in 1..Len(properties) :
          LiqEachMonth("por_propiedad", [id |-> properties[k].id])
    \/ \E k \in 1..Len(properties) :
          LiqEachMonth("por_propietario", [owner |-> properties[k].owner])

SpecLiqMonths == InitLiqMonths /\ [][NextLiqMonths]_vars

RECURSIVE SumIncome(_)
SumIncome(liquidations_of_months) ==
    IF liquidations_of_months = <<>> THEN 0
    ELSE Head(liquidations_of_months).total_income + SumIncome(Tail(liquidations_of_months))

\* the bookings of a property that check out in a month of a year
CheckingOutIn(p, period) ==
    {k \in 1..Len(bookings) :
        /\ bookings[k].property_id = p
        /\ YearOf(bookings[k].end_date) = period.year
        /\ MonthOf(bookings[k].end_date) = period.month}

\* C28: a booking is recognised in exactly one month: the by-property
\* liquidation of the month of its end_date has its rent and no other month
\* has it, so that the total_income of the liquidations of a property over the
\* months adds up to the rents of its bookings; and the by-owner total_income
\* of a month is the sum of the by-property totals of the owner's properties.
C28_RecognisedInOneMonth ==
    (out.op = "liquidations") =>
        IF out.type = "por_propiedad"
        THEN /\ \A i \in 1..Len(LiqMonths) :
                   out.result[i].total_income
                     = SumOf(bookings, CheckingOutIn(out.identifier.id, LiqMonths[i]),
                             "rent_amount")
             /\ SumIncome(out.result)
                  = SumRent(FilterProperty(bookings, out.identifier.id))
        ELSE \A i \in 1..Len(LiqMonths) :
                out.result[i].total_income
                  = SumOf([k \in 1..Len(properties) |->
                              results(properties, bookings, expenses,
                                      WidgetsFor(LiqMonths[i], "por_propiedad",
                                                 [id |-> properties[k].id]))],
                          {k \in 1..Len(properties) :
                              properties[k].owner = out.identifier.owner},
                          "total_income")

\* the liquidations of a property have an income in a month of each year
C28_Witness ==
    /\ out.op = "liquidations"
    /\ out.type = "por_propiedad"
    /\ \E i, j \in 1..Len(LiqMonths) :
          /\ LiqMonths[i].year # LiqMonths[j].year
          /\ out.result[i].total_income > 0
          /\ out.result[j].total_income > 0

\* SpecLiqParams: the liquidation page with every widget changed in turn:
\* the month and the year, the type, the identifier (and back to the blank
\* option of its selectbox) and the commission, with calculations and reruns.
ParamPeriods == {LiqMonths[1], LiqMonths[2]}

ParamWidgets ==
    {[year |-> period.year, month |-> period.month, type |-> x.type,
      identifier |-> x.identifier, commission_percentage |-> c] :
        period \in ParamPeriods,
        x \in {[type |-> "por_propietario", identifier |-> [owner |-> "A"]],
                [type |-> "por_propiedad", identifier |-> [id |-> 1]]},
        c \in CommissionPercentages}

InitLiqParams ==
    /\ bookings \in {t \in LiqMonthsTables :
                        /\ Len(t) <= 1
                        /\ \A k \in 1..Len(t) :
                              /\ t[k].property_id = 1
                              /\ \E period \in ParamPeriods :
                                    /\ YearOf(t[k].end_date) = period.year
                                    /\ MonthOf(t[k].end_date) = period.month}
    /\ bookings_cache = <<>>
    /\ caches = CachesInit
    /\ tg = TgInit
    /\ today = 0
    /\ rr = [s \in Sessions |-> RRInit]
    /\ qb = QBInit
    /\ properties = <<[id |-> 1, owner |-> "A"], [id |-> 2, owner |-> "A"]>>
    /\ expenses = <<>>
    /\ liquidations = <<>>
    /\ liq = LiqInit
    /\ out = OutInit

\* Lines 281-291, 310-328: the selectbox of the identifier is set to its blank
\* option "": identifier is None, so current_params is None; the parameters
\* held differ from it, and the results are cleared without a load.
LiqDeselect ==
    /\ liq.widgets # None
    /\ liq' = [widgets |-> None, params |-> None, results |-> None,
               just_calculated |-> FALSE, notice |-> "none"]
    /\ bookings_cache' = <<load_bookings>>
    /\ out' = LiqDisplay(None, load_properties, load_bookings, load_expenses)
    /\ caches' = [properties |-> <<load_properties>>, expenses |-> <<load_expenses>>]
    /\ UNCHANGED liquidations
    /\ UNCHANGED notLiq

NextLiqParams ==
    \/ \E w \in ParamWidgets : LiqSelect(w)
    \/ LiqDeselect
    \/ LiqRun
    \/ \E success \in BOOLEAN : LiqCalculate(success)

SpecLiqParams == InitLiqParams /\ [][NextLiqParams]_vars

\* a result held is of the year, month and type selected and of the
\* identifier selected, which a saved record holds as text
HeldForSelection(state) ==
    state.results # None =>
        /\ state.widgets # None
        /\ state.results.year = state.widgets.year
        /\ state.results.month = state.widgets.month
        /\ state.results.type = state.widgets.type
        /\ ToText(state.results.identifier) = ToText(state.widgets.identifier)

\* a step that changes a widget leaves the saved liquidation of the new
\* selection in the results, or nothing when there is none or no identifier
ChangeStep ==
    liq'.widgets # liq.widgets =>
        liq'.results = IF liq'.widgets = None THEN None
                       ELSE load_liquidation(liquidations, liq'.widgets.year,
                                             liq'.widgets.month, liq'.widgets.type,
                                             liq'.widgets.identifier)

\* C29: on the liquidation page, after any selections, calculations and
\* reruns, a result held for display has the year, month, type and identifier
\* currently selected; changing a parameter replaces the result held by the
\* saved liquidation of the new parameters or clears it; and no result is held
\* while no identifier is selected.
C29_HeldResultIsOfSelection ==
    /\ [](HeldForSelection(liq) /\ (liq.widgets = None => liq.results = None))
    /\ [][ChangeStep]_vars

\* a saved liquidation of a property was loaded after the commission was
\* changed while another result was on the page
C29_Witness ==
    /\ liq.results # None
    /\ liq.notice = "loaded_other_commission"
    /\ liq.widgets.type = "por_propiedad"
    /\ liq.results.identifier = [text |-> 1]
    /\ Len(liquidations) >= 2


====
